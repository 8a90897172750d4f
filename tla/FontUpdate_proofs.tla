------------------------- MODULE FontUpdate_proofs -------------------------
(***************************************************************************)
(* Theorems about FontUpdate, for every size of sectors, pages, area and   *)
(* chip, any number of cards and font files that fit into the area, and    *)
(* whatever fails when: the writes are exact and stay in the area, and     *)
(* flash never holds fontok and ftinfo without the fonts.                  *)
(*                                                                         *)
(* The flash driver comes first, on its own: what W25QXX_Write has still   *)
(* to do (WriteInv), and what a step of it can do to a cell.               *)
(***************************************************************************)
EXTENDS FontUpdate, DivMod, SequenceTheorems, TLAPS

-----------------------------------------------------------------------------
(* The contents of cells.                                                  *)

FontsFit == \E top \in [0..NF -> Nat] : Fits(top)
Top == CHOOSE top \in [0..NF -> Nat] : Fits(top)

\* What the addresses are counted from: a font that was skipped after a start with
\* erased flash moves those behind it to the end of the chip.
Base == IF skipped THEN Ones ELSE 0

\* The addresses that ftinfo can hold, on the chip or in RAM.
Info == {inf \in [addr : [Font -> Nat], size : [Font -> Int]] :
           \A f \in Font : inf.addr[f] + inf.size[f] \in 0..(Ones + Top[f + 1])}

Value ==
  {FF, Junk, FontOk, Other} \cup ({"font"} \X Card \X Font \X Nat) \cup {InfoCell(inf) : inf \in Info}

ChipType ==
  /\ flash \in [Cell -> Value] /\ want \in [Cell -> Value]
  /\ wpc \in {"none", "check", "erase", "program"}
  /\ waddr \in Nat /\ wdata \in Seq(Value) /\ waddr + Len(wdata) <= SECTOR * SECTORS
  /\ paddr \in Nat /\ pdata \in Seq(Value) /\ paddr + Len(pdata) <= SECTOR * SECTORS

-----------------------------------------------------------------------------
(* What W25QXX_Write has still to do.                                      *)

\* The cells of the sectors after this one.
Later == Span(waddr + Remain, Len(wdata) - Remain)

\* The chip is as it shall be but for these cells, which are erased, or will be.
WriteInv ==
  /\ wpc # "none" => /\ wdata # <<>>
                     /\ \A k \in 1..Len(wdata) : wdata[k] = want[waddr + k - 1]
  /\ wpc \in {"check", "erase"} =>
       \A c \in Cell : c \notin Span(waddr, Len(wdata)) => flash[c] = want[c]
  /\ wpc \in {"erase", "program"} =>
       pdata # <<>> /\ \A k \in 1..Len(pdata) : pdata[k] = want[paddr + k - 1]
  /\ wpc = "erase" => paddr = Sec * SECTOR /\ Len(pdata) = SECTOR
  /\ wpc = "program" =>
       /\ \A c \in Cell : c \notin Span(paddr, Len(pdata)) \cup Later => flash[c] = want[c]
       /\ \A c \in Span(paddr, Len(pdata)) : flash[c] = FF

\* A write up to address n that finds all its cells erased.
Fresh(n) ==
  /\ wpc # "erase" /\ (wpc # "none" => waddr + Len(wdata) = n)
  /\ wpc = "check" => \A c \in Span(waddr, Len(wdata)) : flash[c] = FF
  /\ wpc = "program" => /\ paddr + Len(pdata) = waddr + Remain
                        /\ \A c \in Later : flash[c] = FF

-----------------------------------------------------------------------------
(* The update.                                                             *)

ProgType ==
  /\ upc \in {"off", "idle", "erase", "open", "read", "copy", "save", "saving"}
  /\ card \in Card /\ i \in 0..FONTSECSIZE /\ fx \in Font /\ offx \in Nat
  /\ rval \in {0, 5, 16, NoResult} \cup 1..NF /\ skipped \in BOOLEAN
  /\ ftinfo \in Info

\* Where the fonts copied so far end.
Mark ==
  IF upc # "open" THEN ftinfo.addr[fx]
  ELSE IF fx = 0 THEN InfoLen ELSE ftinfo.addr[fx - 1] + ftinfo.size[fx - 1]

\* A write is under way in two stages only, and has been done when they end.
StageInv ==
  /\ upc \notin {"copy", "saving"} => wpc = "none"
  /\ upc \in {"copy", "saving"} /\ wpc = "none" => flash = want
  /\ upc \notin {"off", "idle"} => rval = NoResult

\* The place of the font being copied, and of the block.
PlaceInv ==
  /\ upc \in {"open", "read", "copy"} => Mark \in Nat /\ Mark <= Base + Top[fx]
  /\ upc \in {"read", "copy"} =>
       /\ ftinfo.size[fx] = FileLen[card][fx] /\ offx <= ftinfo.size[fx]
       /\ \E j \in Nat : offx = SECTOR * j

BaseInv == ChipType /\ WriteInv /\ ProgType /\ StageInv /\ PlaceInv

\* The stages from the first erased sector to SaveInfo.
Working == upc \in {"open", "read", "copy", "save"} \/ (upc = "erase" /\ i > 0)

\* Meanwhile, and after a file has failed, fontok is not in the chip, nor will
\* be when the write under way is done.
NotOkInv ==
  rval \in 1..NF \/ Working => flash[0] # FontOk /\ (wpc # "none" => want[0] # FontOk)

ErasedInv == upc = "erase" => \A c \in Cell : c < i * SECTOR => flash[c] = FF

\* The chip as it will be once the write under way is done.
View == IF wpc = "none" THEN flash ELSE want

\* The first n cells of font f of card v are at address a.
Holds(V, at, n, v, f) == \A k \in 0..(n - 1) : V[at + k] = <<"font", v, f, k>>

Whole(f) ==
  /\ InfoLen <= ftinfo.addr[f] /\ ftinfo.size[f] = FileLen[card][f]
  /\ Holds(View, ftinfo.addr[f], ftinfo.size[f], card, f)

\* The number of fonts copied so far, and the cells of the font being copied.
Reached == IF upc \in {"save", "saving"} THEN NF ELSE fx
Got == IF upc = "copy" THEN offx + bread ELSE offx

\* The fonts are copied one behind the other and stay as they are; ftinfo's own
\* cells are empty until it is saved.
CopyInv ==
  upc \in {"open", "read", "copy", "save", "saving"} /\ ~skipped =>
    /\ upc # "saving" => View[0] = FF /\ View[1] = FF
    /\ \A f \in Font : f < Reached => Whole(f)
    /\ upc \in {"open", "read", "copy"} =>
         /\ InfoLen <= Mark
         /\ \A f \in Font : f < fx => ftinfo.addr[f] + ftinfo.size[f] <= Mark
    /\ upc \in {"read", "copy"} =>
         /\ ftinfo.size[fx] = FileLen[card][fx]
         /\ Holds(View, ftinfo.addr[fx], Got, card, fx)

\* While ftinfo is saved, the fonts are in the chip, and nothing is erased.
SaveInv ==
  upc = "saving" /\ ~skipped =>
    /\ want[0] = FontOk /\ want[1] = InfoCell(ftinfo) /\ flash[1] \in {FF, want[1]}
    /\ \A c \in Cell : c >= InfoLen => flash[c] = want[c]
    /\ Fresh(InfoLen)

UpdatedInv == rval = 0 /\ ~skipped => Usable /\ flash[1] # FF

\* A write under way ends in the area, and nothing changes outside.
OutsideInv ==
  ~skipped =>
    /\ wpc # "none" => waddr + Len(wdata) <= SECTOR * FONTSECSIZE
    /\ \A c \in Cell \ Area : flash[c] = Other /\ (wpc # "none" => want[c] = Other)

-----------------------------------------------------------------------------
(* Lemmas about the chip.                                                  *)

LEMMA AreaFacts ==
  ASSUME FontsFit
  PROVE  /\ Fits(Top) /\ SECTOR \in Nat \ {0} /\ PAGE \in Nat \ {0} /\ SECTORS \in Nat \ {0}
         /\ FONTSECSIZE \in Nat \ {0}
         /\ SECTOR * SECTORS \in Nat /\ SECTOR * SECTORS > InfoLen
         /\ SECTOR * FONTSECSIZE \in Nat /\ InfoLen < SECTOR * FONTSECSIZE
         /\ Ones \in Nat /\ SECTOR * FONTSECSIZE <= Ones
         /\ Ones + SECTOR * FONTSECSIZE <= SECTOR * SECTORS
         /\ Cell = 0..(SECTOR * SECTORS - 1) /\ 0 \in Cell /\ 1 \in Cell
         /\ Area = 0..(SECTOR * FONTSECSIZE - 1)
<1>1. Fits(Top)
  BY DEF FontsFit, Top
<1>2. /\ SECTOR \in Nat \ {0} /\ PAGE \in Nat \ {0} /\ SECTORS \in Nat \ {0}
      /\ FONTSECSIZE \in Nat \ {0} /\ Ones \in Nat
  BY FlashAssumption, AreaAssumption
<1> DEFINE N == SECTOR * SECTORS
           Z == SECTOR * FONTSECSIZE
<1>3. N \in Nat /\ Z \in Nat
  BY <1>2
<1>4. InfoLen < Z /\ Z <= Ones /\ Ones + Z <= N
  BY AreaAssumption
<1>5. Cell = 0..(N - 1) /\ Area = 0..(Z - 1)
  BY DEF Cell, Area
<1> HIDE DEF N, Z
<1>6. N > InfoLen
  BY <1>2, <1>3, <1>4 DEF InfoLen
<1>7. 0 \in Cell /\ 1 \in Cell
  BY <1>3, <1>5, <1>6 DEF InfoLen
<1>. QED
  BY <1>1, <1>2, <1>3, <1>4, <1>5, <1>6, <1>7 DEF N, Z

LEMMA ValueFacts ==
  /\ FF \in Value /\ Junk \in Value /\ FontOk \in Value /\ Other \in Value
  /\ Mixed \notin Value /\ FF # FontOk /\ Junk # FontOk
  /\ \A v \in Card, f \in Font, k \in Nat :
       <<"font", v, f, k>> \in Value /\ <<"font", v, f, k>> # FontOk
  /\ \A inf \in Info : InfoCell(inf) \in Value /\ InfoCell(inf) # FF /\ InfoCell(inf) # FontOk
<1>1. \A x \in {"font"} \X Card \X Font \X Nat : x[1] = "font"
  OBVIOUS
<1>2. \A inf \in Info : InfoCell(inf)[1] = "info"
  BY DEF InfoCell
<1>3. Mixed[1] = "mixed" /\ FF[1] = "FF" /\ Junk[1] = "junk" /\ FontOk[1] = "0XAA"
      /\ Other[1] = "other"
  BY DEF Mixed, FF, Junk, FontOk, Other
<1>4. Mixed \notin Value
  BY <1>1, <1>2, <1>3 DEF Value
<1>5. \A v \in Card, f \in Font, k \in Nat :
        <<"font", v, f, k>> \in Value /\ <<"font", v, f, k>> # FontOk
  <2> TAKE v \in Card, f \in Font, k \in Nat
  <2>1. <<"font", v, f, k>> \in {"font"} \X Card \X Font \X Nat
    OBVIOUS
  <2>. QED
    BY <1>1, <1>3, <2>1 DEF Value
<1>6. \A inf \in Info : InfoCell(inf) \in Value /\ InfoCell(inf) # FF /\ InfoCell(inf) # FontOk
  BY <1>2, <1>3 DEF Value
<1>7. FF \in Value /\ Junk \in Value /\ FontOk \in Value /\ Other \in Value
  BY DEF Value
<1>8. FF # FontOk /\ Junk # FontOk
  BY <1>3
<1>. QED
  BY <1>4, <1>5, <1>6, <1>7, <1>8

\* The part of the data that goes into this sector.
LEMMA PieceFacts ==
  ASSUME FontsFit, ChipType, WriteInv, wpc # "none"
  PROVE  /\ Len(wdata) \in Nat /\ Remain \in 1..Len(wdata) /\ Sec * SECTOR \in Nat
         /\ Sec * SECTOR <= waddr
         /\ waddr + Remain <= Sec * SECTOR + SECTOR
         /\ Sec * SECTOR + SECTOR <= SECTOR * SECTORS
         /\ Remain < Len(wdata) => waddr + Remain = Sec * SECTOR + SECTOR
<1> DEFINE s == waddr \div SECTOR
           r == waddr % SECTOR
           n == Len(wdata)
           N == SECTOR * SECTORS
<1>1. SECTOR \in Nat \ {0} /\ SECTORS \in Nat /\ N \in Nat
  BY AreaFacts
<1>2. n \in Nat /\ n > 0 /\ waddr \in Nat /\ waddr + n <= N
  BY LenProperties, EmptySeq DEF ChipType, WriteInv
<1>3. r \in Nat /\ r < SECTOR /\ s \in Nat /\ waddr = SECTOR * s + r
  BY <1>1, <1>2, DivModFacts
<1>4. Sec = s /\ Remain = IF SECTOR - r < n THEN SECTOR - r ELSE n
  BY DEF Sec, Remain, Lesser
<1>5. SECTOR * s + SECTOR <= N
  <2>1. s < SECTORS
    <3>1. SUFFICES ASSUME s >= SECTORS PROVE FALSE
      BY <1>1, <1>3
    <3>2. SECTOR * s >= SECTOR * SECTORS
      BY <1>1, <1>3, <3>1
    <3> HIDE DEF s, r, n
    <3>3. SECTOR * s \in Nat
      BY <1>1, <1>3
    <3>. QED
      BY <1>1, <1>2, <1>3, <3>2, <3>3
  <2>2. SECTOR * (s + 1) <= SECTOR * SECTORS
    BY <1>1, <1>3, <2>1
  <2>3. SECTOR * (s + 1) = SECTOR * s + SECTOR
    BY <1>1, <1>3
  <2>. QED
    BY <2>2, <2>3
<1>6. Sec * SECTOR = SECTOR * s /\ SECTOR * s \in Nat
  <2> HIDE DEF s, r, n, N
  <2>. QED
    BY <1>1, <1>3, <1>4
<1> DEFINE b == SECTOR * s
<1> HIDE DEF s, r, n, N, b
<1>7. /\ Remain \in 1..n /\ b <= waddr /\ waddr + Remain <= b + SECTOR
      /\ Remain < n => waddr + Remain = b + SECTOR
  <2>1. b \in Nat /\ waddr = b + r
    BY <1>3, <1>6 DEF b
  <2>. QED
    BY <1>1, <1>2, <1>3, <1>4, <2>1
<1>. QED
  BY <1>2, <1>5, <1>6, <1>7 DEF n, N, b

\* The part that goes into this page.
LEMMA PageFacts ==
  ASSUME FontsFit, ChipType, WriteInv, wpc = "program"
  PROVE  Len(pdata) \in Nat /\ PageLen \in 1..Len(pdata)
<1> DEFINE r == paddr % PAGE
           n == Len(pdata)
<1>1. PAGE \in Nat \ {0} /\ n \in Nat /\ n > 0 /\ paddr \in Nat
  BY AreaFacts, LenProperties, EmptySeq DEF ChipType, WriteInv
<1>2. r \in Nat /\ r < PAGE
  BY <1>1, DivModFacts
<1>3. PageLen = IF PAGE - r < n THEN PAGE - r ELSE n
  BY DEF PageLen, Lesser
<1> HIDE DEF r, n
<1>. QED
  BY <1>1, <1>2, <1>3 DEF n

\* The beginning and the rest of a sequence.
LEMMA Parts ==
  ASSUME NEW s \in Seq(Value), NEW n \in 0..Len(s)
  PROVE  /\ SubSeq(s, 1, n) \in Seq(Value) /\ Len(SubSeq(s, 1, n)) = n
         /\ \A k \in 1..n : SubSeq(s, 1, n)[k] = s[k]
         /\ SubSeq(s, n + 1, Len(s)) \in Seq(Value)
         /\ Len(SubSeq(s, n + 1, Len(s))) = Len(s) - n
         /\ \A k \in 1..(Len(s) - n) : SubSeq(s, n + 1, Len(s))[k] = s[n + k]
<1>1. Len(s) \in Nat /\ n \in Nat /\ n <= Len(s)
  BY LenProperties
<1>2. \A k \in 1..Len(s) : s[k] \in Value
  BY ElementOfSeq
<1>3. (\A k \in 1..n : s[k] \in Value) /\ (\A k \in (n + 1)..Len(s) : s[k] \in Value)
  BY <1>1, <1>2
<1>4. /\ SubSeq(s, 1, n) \in Seq(Value)
      /\ Len(SubSeq(s, 1, n)) = IF 1 <= n THEN n - 1 + 1 ELSE 0
      /\ \A k \in 1..(n - 1 + 1) : SubSeq(s, 1, n)[k] = s[1 + k - 1]
  <2>1. 1 \in Int /\ n \in Int
    BY <1>1
  <2>. QED
    BY <1>3, <2>1, SubSeqProperties
<1>5. /\ SubSeq(s, n + 1, Len(s)) \in Seq(Value)
      /\ Len(SubSeq(s, n + 1, Len(s))) = IF n + 1 <= Len(s) THEN Len(s) - (n + 1) + 1 ELSE 0
      /\ \A k \in 1..(Len(s) - (n + 1) + 1) : SubSeq(s, n + 1, Len(s))[k] = s[(n + 1) + k - 1]
  <2>1. n + 1 \in Int /\ Len(s) \in Int
    BY <1>1
  <2>. QED
    BY <1>3, <2>1, SubSeqProperties
<1>6. n - 1 + 1 = n /\ Len(s) - (n + 1) + 1 = Len(s) - n
      /\ \A k \in Nat : 1 + k - 1 = k /\ (n + 1) + k - 1 = n + k
  BY <1>1
<1>7. Len(SubSeq(s, 1, n)) = n /\ Len(SubSeq(s, n + 1, Len(s))) = Len(s) - n
  <2>1. (IF 1 <= n THEN n - 1 + 1 ELSE 0) = n
    BY <1>1
  <2>2. (IF n + 1 <= Len(s) THEN Len(s) - (n + 1) + 1 ELSE 0) = Len(s) - n
    BY <1>1
  <2>. QED
    BY <1>4, <1>5, <2>1, <2>2
<1>8. \A k \in 1..n : SubSeq(s, 1, n)[k] = s[k]
  BY <1>1, <1>4, <1>6
<1>9. \A k \in 1..(Len(s) - n) : SubSeq(s, n + 1, Len(s))[k] = s[n + k]
  BY <1>1, <1>5, <1>6
<1>. QED
  BY <1>4, <1>5, <1>7, <1>8, <1>9

-----------------------------------------------------------------------------
(* The steps of W25QXX_Write.                                              *)

\* W25QXX_Write is called.
LEMMA BeginWriteStep ==
  ASSUME FontsFit, ChipType, NEW a \in Nat, NEW data \in Seq(Value), data # <<>>,
         a + Len(data) <= SECTOR * SECTORS, BeginWrite(a, data)
  PROVE  /\ ChipType' /\ WriteInv' /\ wpc' = "check" /\ flash' = flash
         /\ waddr' = a /\ wdata' = data
         /\ \A c \in Cell : want'[c] = IF c \in Span(a, Len(data)) THEN data[c - a + 1]
                                       ELSE flash[c]
<1> DEFINE n == Len(data)
           N == SECTOR * SECTORS
<1>1. n \in Nat /\ n > 0 /\ N \in Nat /\ Cell = 0..(N - 1)
  BY AreaFacts, LenProperties, EmptySeq
<1>2. /\ wpc' = "check" /\ waddr' = a /\ wdata' = data
      /\ want' = Overwritten(a, data) /\ UNCHANGED <<flash, paddr, pdata>>
  BY DEF BeginWrite
<1>3. \A c \in Cell : want'[c] = IF c \in Span(a, n) THEN data[c - a + 1] ELSE flash[c]
  BY <1>2 DEF Overwritten
<1>4. a + n <= N
  OBVIOUS
<1> HIDE DEF n, N
<1>5. \A c \in Span(a, n) : c - a + 1 \in 1..n
  BY <1>1 DEF Span
<1>6. want' \in [Cell -> Value]
  <2>1. \A c \in Span(a, n) : data[c - a + 1] \in Value
    BY <1>5, ElementOfSeq DEF n
  <2>. QED
    BY <1>2, <2>1 DEF Overwritten, ChipType, n
<1>7. ASSUME NEW k \in 1..n PROVE data[k] = want'[a + k - 1]
  <2>1. a + k - 1 \in Cell /\ a + k - 1 \in Span(a, n) /\ (a + k - 1) - a + 1 = k
    BY <1>1, <1>4 DEF Span
  <2>. QED
    BY <1>3, <2>1
<1>8. ChipType'
  BY <1>2, <1>4, <1>6 DEF ChipType, n, N
<1>9. WriteInv'
  BY <1>2, <1>3, <1>7 DEF WriteInv, n
<1>. QED
  BY <1>2, <1>3, <1>8, <1>9 DEF n

\* The sector is read.
LEMMA CheckStep ==
  ASSUME FontsFit, ChipType, WriteInv, CheckSector
  PROVE  ChipType' /\ WriteInv'
<1> DEFINE n == Len(wdata)
           N == SECTOR * SECTORS
           base == Sec * SECTOR
           first == SubSeq(wdata, 1, Remain)
<1>1. /\ wpc = "check" /\ UNCHANGED <<flash, waddr, wdata, want>>
      /\ \/ wpc' = "program" /\ paddr' = waddr /\ pdata' = first
            /\ \A c \in Span(waddr, Remain) : flash[c] = FF
         \/ wpc' = "erase" /\ paddr' = base /\ pdata' = Merged
  BY DEF CheckSector
<1>2. /\ n \in Nat /\ Remain \in 1..n /\ base \in Nat
      /\ base <= waddr /\ waddr + Remain <= base + SECTOR /\ base + SECTOR <= N
      /\ Remain < n => waddr + Remain = base + SECTOR
  BY <1>1, PieceFacts
<1>3. /\ SECTOR \in Nat \ {0} /\ N \in Nat /\ Cell = 0..(N - 1) /\ waddr \in Nat
      /\ wdata \in Seq(Value) /\ waddr + n <= N /\ flash \in [Cell -> Value]
      /\ want \in [Cell -> Value]
  BY AreaFacts DEF ChipType
<1>4. /\ wdata # <<>> /\ \A k \in 1..n : wdata[k] = want[waddr + k - 1]
      /\ \A c \in Cell : c \notin Span(waddr, n) => flash[c] = want[c]
  BY <1>1 DEF WriteInv
<1>5. /\ first \in Seq(Value) /\ Len(first) = Remain /\ \A k \in 1..Remain : first[k] = wdata[k]
  <2>1. Remain \in 0..Len(wdata)
    BY <1>2
  <2>. QED
    BY <1>3, <2>1, Parts
<1>6. Later' = Later /\ Sec' = Sec
  BY <1>1 DEF Later, Remain, Sec
<1> HIDE DEF n, N, base, first
<1>7. \A k \in 1..Remain : k \in 1..n
  BY <1>2
<1>8. CASE /\ wpc' = "program" /\ paddr' = waddr /\ pdata' = first
           /\ \A c \in Span(waddr, Remain) : flash[c] = FF
  <2>1. waddr + Remain <= N /\ Remain # 0
    BY <1>2, <1>3
  <2>2. ChipType'
    BY <1>1, <1>3, <1>5, <1>8, <2>1 DEF ChipType, n, N
  <2>3. \A c : c \notin Span(waddr, Remain) \cup Later => c \notin Span(waddr, n)
    BY <1>2, <1>3 DEF Span, Later, n
  <2>4. first # <<>> /\ \A k \in 1..Remain : first[k] = want[waddr + k - 1]
    BY <1>4, <1>5, <1>7, <2>1, EmptySeq
  <2>5. \A c \in Cell : c \notin Span(waddr, Remain) \cup Later => flash[c] = want[c]
    BY <1>4, <2>3
  <2>6. WriteInv'
    BY <1>1, <1>4, <1>5, <1>6, <1>8, <2>4, <2>5 DEF WriteInv, n
  <2>. QED
    BY <2>2, <2>6
<1>9. CASE wpc' = "erase" /\ paddr' = base /\ pdata' = Merged
  <2> DEFINE all == Overwritten(waddr, first)
  <2>1. Merged = [k \in 1..SECTOR |-> all[base + k - 1]]
    BY DEF Merged, base, first
  <2>2. \A c \in Cell : all[c] = IF c \in Span(waddr, Remain) THEN first[c - waddr + 1]
                                 ELSE flash[c]
    BY <1>5 DEF Overwritten
  <2> HIDE DEF all
  <2>3. ASSUME NEW k \in 1..SECTOR
        PROVE  base + k - 1 \in Cell /\ all[base + k - 1] = want[base + k - 1]
    <3> DEFINE c == base + k - 1
    <3>1. c \in Cell
      BY <1>2, <1>3
    <3>2. CASE c \in Span(waddr, Remain)
      <4> DEFINE m == c - waddr + 1
      <4>1. m \in 1..Remain /\ waddr + m - 1 = c
        BY <1>2, <1>3, <3>1, <3>2 DEF Span
      <4> HIDE DEF c, m
      <4>2. all[c] = first[m]
        BY <2>2, <3>1, <3>2 DEF m
      <4>3. first[m] = want[c]
        BY <1>4, <1>5, <1>7, <4>1
      <4>. QED
        BY <3>1, <4>2, <4>3 DEF c
    <3>3. CASE c \notin Span(waddr, Remain)
      <4>1. c \notin Span(waddr, n)
        BY <1>2, <1>3, <3>1, <3>3 DEF Span
      <4> HIDE DEF c
      <4>2. all[c] = flash[c] /\ flash[c] = want[c]
        BY <1>4, <2>2, <3>1, <3>3, <4>1
      <4>. QED
        BY <3>1, <4>2 DEF c
    <3>. QED
      BY <3>2, <3>3
  <2>4. Merged \in [1..SECTOR -> Value]
    BY <1>3, <2>1, <2>3
  <2>5. Merged \in Seq(Value)
    BY <1>3, <2>4, SeqDef
  <2>6. Len(Merged) = SECTOR
    BY <1>3, <2>4, <2>5, LenProperties
  <2>7. Merged # <<>>
    BY <1>3, <2>5, <2>6, EmptySeq
  <2>8. \A k \in 1..SECTOR : Merged[k] = want[base + k - 1]
    BY <2>1, <2>3
  <2>9. ChipType'
    BY <1>1, <1>2, <1>3, <1>9, <2>5, <2>6 DEF ChipType, n, N
  <2>10. WriteInv'
    BY <1>1, <1>4, <1>6, <1>9, <2>6, <2>7, <2>8 DEF WriteInv, n, base
  <2>. QED
    BY <2>9, <2>10
<1>. QED
  BY <1>1, <1>8, <1>9

\* The sector is erased.
LEMMA EraseStep ==
  ASSUME FontsFit, ChipType, WriteInv, EraseForWrite
  PROVE  /\ ChipType' /\ WriteInv'
         /\ \A c \in Cell : flash'[c] \in {flash[c], FF}
<1> DEFINE n == Len(wdata)
           base == Sec * SECTOR
<1>1. /\ wpc = "erase" /\ wpc' = "program" /\ flash' = Erased(Sec)
      /\ UNCHANGED <<waddr, wdata, paddr, pdata, want>>
  BY DEF EraseForWrite
<1>2. /\ n \in Nat /\ Remain \in 1..n /\ base \in Nat
      /\ base <= waddr /\ waddr + Remain <= base + SECTOR
  BY <1>1, PieceFacts
<1>3. SECTOR \in Nat \ {0} /\ waddr \in Nat /\ flash \in [Cell -> Value] /\ FF \in Value
      /\ \A c \in Cell : c \in Nat
  <2>1. \A c \in Cell : c \in Nat
    BY AreaFacts
  <2>2. SECTOR \in Nat \ {0}
    BY AreaFacts
  <2>3. waddr \in Nat /\ flash \in [Cell -> Value]
    BY DEF ChipType
  <2>. QED
    BY <2>1, <2>2, <2>3, ValueFacts
<1>4. /\ wdata # <<>> /\ \A k \in 1..n : wdata[k] = want[waddr + k - 1]
      /\ \A c \in Cell : c \notin Span(waddr, n) => flash[c] = want[c]
      /\ pdata # <<>> /\ \A k \in 1..Len(pdata) : pdata[k] = want[paddr + k - 1]
      /\ paddr = base /\ Len(pdata) = SECTOR
  BY <1>1 DEF WriteInv
<1>5. Later' = Later
  BY <1>1 DEF Later, Remain
<1>6. SectorCells(Sec) = Span(base, SECTOR)
  BY DEF SectorCells, Span
<1> HIDE DEF n, base
<1>7. flash' = [c \in Cell |-> IF c \in Span(base, SECTOR) THEN FF ELSE flash[c]]
  BY <1>1, <1>6 DEF Erased
<1>8. flash' \in [Cell -> Value] /\ \A c \in Cell : flash'[c] \in {flash[c], FF}
  BY <1>3, <1>7
<1>9. ChipType'
  BY <1>1, <1>8 DEF ChipType
<1>10. \A c \in Cell : c \notin Span(base, SECTOR) \cup Later => c \notin Span(waddr, n)
  BY <1>2, <1>3 DEF Span, Later, n
<1>11. \A c \in Cell : c \notin Span(base, SECTOR) \cup Later => flash'[c] = want[c]
  BY <1>4, <1>7, <1>10
<1>12. \A c \in Span(base, SECTOR) : flash'[c] = FF
  <2>1. \A c \in Span(base, SECTOR) : c \in Cell
    <3> DEFINE N == SECTOR * SECTORS
    <3>1. base + SECTOR <= N /\ N \in Nat /\ Cell = 0..(N - 1)
      BY <1>1, AreaFacts, PieceFacts DEF base
    <3> HIDE DEF N
    <3>. QED
      BY <1>2, <1>3, <3>1 DEF Span
  <2>. QED
    BY <1>7, <2>1
<1>13. WriteInv'
  BY <1>1, <1>4, <1>5, <1>11, <1>12 DEF WriteInv, n
<1>. QED
  BY <1>8, <1>9, <1>13

\* What programming does to the erased cells of the page.
LEMMA ProgramCells ==
  ASSUME FontsFit, ChipType, WriteInv, wpc = "program",
         NEW these \in SUBSET Span(paddr, PageLen)
  PROVE  /\ these \subseteq Cell
         /\ Programmed(these, paddr, pdata) \in [Cell -> Value]
         /\ \A c \in Cell : Programmed(these, paddr, pdata)[c] =
                              IF c \in these THEN want[c] ELSE flash[c]
<1> DEFINE n == Len(pdata)
           N == SECTOR * SECTORS
           new == Programmed(these, paddr, pdata)
<1>1. /\ n \in Nat /\ PageLen \in 1..n /\ N \in Nat /\ Cell = 0..(N - 1)
  BY AreaFacts, PageFacts
<1>2. /\ paddr \in Nat /\ paddr + n <= N /\ flash \in [Cell -> Value] /\ want \in [Cell -> Value]
  BY DEF ChipType
<1>3. /\ \A k \in 1..n : pdata[k] = want[paddr + k - 1]
      /\ \A c \in Span(paddr, n) : flash[c] = FF
  BY DEF WriteInv
<1> HIDE DEF n, N
<1>4. \A c \in these : c \in Cell /\ c \in Span(paddr, n)
  BY <1>1, <1>2 DEF Span
<1>5. new = [c \in Cell |-> IF c \in these THEN Burnt(flash[c], pdata[c - paddr + 1])
                            ELSE flash[c]]
  BY DEF Programmed
<1>6. ASSUME NEW c \in these PROVE Burnt(flash[c], pdata[c - paddr + 1]) = want[c]
  <2> DEFINE k == c - paddr + 1
  <2>1. k \in 1..n /\ paddr + k - 1 = c
    BY <1>1, <1>2, <1>4 DEF Span
  <2>2. flash[c] = FF
    BY <1>3, <1>4
  <2> HIDE DEF k
  <2>3. pdata[k] = want[c]
    BY <1>3, <2>1
  <2>. QED
    BY <2>2, <2>3 DEF Burnt, k
<1> HIDE DEF new
<1>7. \A c \in Cell : new[c] = IF c \in these THEN want[c] ELSE flash[c]
  BY <1>4, <1>5, <1>6
<1>8. new \in [Cell -> Value]
  <2>1. \A c \in Cell : new[c] \in Value
    BY <1>2, <1>7
  <2>. QED
    BY <1>5, <2>1
<1>. QED
  BY <1>4, <1>7, <1>8 DEF new

\* A page is programmed, and the sector or the write may be done.
LEMMA PageStep ==
  ASSUME FontsFit, ChipType, WriteInv, W25QXX_Write_Page
  PROVE  /\ ChipType' /\ WriteInv' /\ want' = want
         /\ wpc' = "none" => flash' = want'
         /\ \A c \in Cell : flash'[c] \in {flash[c], want[c]}
<1> DEFINE n == Len(pdata)
           m == Len(wdata)
           N == SECTOR * SECTORS
           next == SubSeq(pdata, PageLen + 1, n)
           more == SubSeq(wdata, Remain + 1, m)
<1>1. /\ wpc = "program" /\ flash' = Programmed(Span(paddr, PageLen), paddr, pdata)
      /\ paddr' = paddr + PageLen /\ pdata' = next /\ want' = want
      /\ IF PageLen = n THEN SectorDone ELSE UNCHANGED <<wpc, waddr, wdata>>
  BY DEF W25QXX_Write_Page
<1>2. /\ n \in Nat /\ PageLen \in 1..n /\ N \in Nat /\ Cell = 0..(N - 1)
      /\ m \in Nat /\ Remain \in 1..m
  BY <1>1, AreaFacts, PageFacts, PieceFacts
<1>3. /\ paddr \in Nat /\ paddr + n <= N /\ flash \in [Cell -> Value] /\ want \in [Cell -> Value]
      /\ waddr \in Nat /\ waddr + m <= N /\ pdata \in Seq(Value) /\ wdata \in Seq(Value)
  BY DEF ChipType
<1>4. /\ wdata # <<>> /\ \A k \in 1..m : wdata[k] = want[waddr + k - 1]
      /\ \A k \in 1..n : pdata[k] = want[paddr + k - 1]
      /\ \A c \in Cell : c \notin Span(paddr, n) \cup Later => flash[c] = want[c]
      /\ \A c \in Span(paddr, n) : flash[c] = FF
  BY <1>1 DEF WriteInv
<1>5. /\ flash' \in [Cell -> Value]
      /\ \A c \in Cell : flash'[c] = IF c \in Span(paddr, PageLen) THEN want[c] ELSE flash[c]
  <2>1. Span(paddr, PageLen) \in SUBSET Span(paddr, PageLen)
    OBVIOUS
  <2>. QED
    BY <1>1, <2>1, ProgramCells
<1>6. /\ next \in Seq(Value) /\ Len(next) = n - PageLen
      /\ \A k \in 1..(n - PageLen) : next[k] = pdata[PageLen + k]
  <2>1. PageLen \in 0..Len(pdata)
    BY <1>2
  <2>. QED
    BY <1>3, <2>1, Parts
<1>7. /\ more \in Seq(Value) /\ Len(more) = m - Remain
      /\ \A k \in 1..(m - Remain) : more[k] = wdata[Remain + k]
  <2>1. Remain \in 0..Len(wdata)
    BY <1>2
  <2>. QED
    BY <1>3, <2>1, Parts
<1>8. Later = Span(waddr + Remain, m - Remain)
  BY DEF Later
<1> HIDE DEF n, m, N, next, more
<1>9. paddr' \in Nat /\ paddr' + Len(pdata') <= N
  BY <1>1, <1>2, <1>3, <1>6
<1>10. CASE PageLen # n
  <2>1. UNCHANGED <<wpc, waddr, wdata>> /\ n - PageLen > 0
    BY <1>1, <1>2, <1>10
  <2>2. Later' = Later
    BY <2>1 DEF Later, Remain
  <2>3. ChipType'
    BY <1>1, <1>3, <1>5, <1>6, <1>9, <2>1 DEF ChipType, N
  <2>4. \A k \in 1..(n - PageLen) :
          PageLen + k \in 1..n /\ paddr + (PageLen + k) - 1 = (paddr + PageLen) + k - 1
    BY <1>2, <1>3
  <2>5. \A k \in 1..Len(pdata') : pdata'[k] = want'[paddr' + k - 1]
    BY <1>1, <1>4, <1>6, <2>4
  <2>6. pdata' # <<>>
    BY <1>1, <1>6, <2>1, EmptySeq
  <2>7. \A c \in Cell : c \notin Span(paddr', Len(pdata')) =>
                          c \in Span(paddr, PageLen) \/ c \notin Span(paddr, n)
    BY <1>1, <1>2, <1>3, <1>6 DEF Span
  <2>8. \A c \in Cell : c \notin Span(paddr', Len(pdata')) \cup Later => flash'[c] = want[c]
    BY <1>4, <1>5, <2>7
  <2>9. \A c \in Span(paddr', Len(pdata')) :
          c \in Cell /\ c \notin Span(paddr, PageLen) /\ c \in Span(paddr, n)
    BY <1>1, <1>2, <1>3, <1>6 DEF Span
  <2>10. \A c \in Span(paddr', Len(pdata')) : flash'[c] = FF
    BY <1>4, <1>5, <2>9
  <2>11. WriteInv'
    BY <1>1, <1>4, <2>1, <2>2, <2>5, <2>6, <2>8, <2>10 DEF WriteInv, m
  <2>. QED
    BY <1>1, <1>5, <2>1, <2>3, <2>11
<1>11. CASE PageLen = n
  <2>1. SectorDone
    BY <1>1, <1>11
  <2>2. \A c \in Cell : c \notin Later => flash'[c] = want[c]
    BY <1>4, <1>5, <1>11
  <2>3. CASE Remain = m
    <3>1. wpc' = "none" /\ UNCHANGED <<waddr, wdata>>
      BY <2>1, <2>3 DEF SectorDone, m
    <3>2. \A c : c \notin Later
      BY <1>2, <1>3, <1>8, <2>3 DEF Span
    <3>3. flash' = want'
      BY <1>1, <1>3, <1>5, <2>2, <3>2
    <3>4. ChipType'
      BY <1>1, <1>3, <1>5, <1>6, <1>9, <3>1 DEF ChipType, m, N
    <3>5. WriteInv'
      BY <3>1 DEF WriteInv
    <3>. QED
      BY <1>1, <1>5, <3>3, <3>4, <3>5
  <2>4. CASE Remain # m
    <3>1. wpc' = "check" /\ waddr' = waddr + Remain /\ wdata' = more
      BY <2>1, <2>4 DEF SectorDone, m, more
    <3>2. m - Remain > 0 /\ waddr' \in Nat /\ waddr' + Len(wdata') <= N
      BY <1>2, <1>3, <1>7, <2>4, <3>1
    <3>3. ChipType'
      BY <1>1, <1>3, <1>5, <1>6, <1>7, <1>9, <3>1, <3>2 DEF ChipType, N
    <3>4. wdata' # <<>>
      BY <1>7, <3>1, <3>2, EmptySeq
    <3>5. \A k \in 1..Len(wdata') : wdata'[k] = want'[waddr' + k - 1]
      <4>1. ASSUME NEW k \in 1..(m - Remain)
            PROVE  more[k] = want[waddr' + k - 1]
        <5>1. more[k] = wdata[Remain + k]
          BY <1>7
        <5>2. /\ Remain + k \in 1..m
              /\ waddr + (Remain + k) - 1 = waddr' + k - 1
          BY <1>2, <1>3, <3>1
        <5>3. wdata[Remain + k] = want[waddr + (Remain + k) - 1]
          BY <1>4, <5>2
        <5>. QED
          BY <5>1, <5>2, <5>3
      <4>2. Len(wdata') = m - Remain /\ want' = want
        BY <1>1, <1>7, <3>1
      <4>. QED
        BY <4>1, <4>2, <3>1
    <3>6. Span(waddr', Len(wdata')) = Later
      BY <1>7, <1>8, <3>1
    <3>7. WriteInv'
      BY <1>1, <2>2, <3>1, <3>4, <3>5, <3>6 DEF WriteInv
    <3>. QED
      BY <1>1, <1>5, <3>1, <3>3, <3>7
  <2>. QED
    BY <2>3, <2>4
<1>. QED
  BY <1>10, <1>11

\* Any step of W25QXX_Write.  A cell holds what it held, or nothing, or what it
\* shall hold.
LEMMA WriteStep ==
  ASSUME FontsFit, ChipType, WriteInv, W25QXX_Write
  PROVE  /\ ChipType' /\ WriteInv' /\ want' = want /\ wpc # "none"
         /\ wpc' = "none" => flash' = want'
         /\ \A c \in Cell : flash'[c] \in {flash[c], FF, want[c]}
<1>1. CASE CheckSector
  <2>1. flash' = flash /\ want' = want /\ wpc = "check" /\ wpc' \in {"program", "erase"}
    BY <1>1 DEF CheckSector
  <2>. QED
    BY <1>1, <2>1, CheckStep
<1>2. CASE EraseForWrite
  <2>1. want' = want /\ wpc = "erase" /\ wpc' = "program"
    BY <1>2 DEF EraseForWrite
  <2>. QED
    BY <1>2, <2>1, EraseStep
<1>3. CASE W25QXX_Write_Page
  <2>1. wpc = "program"
    BY <1>3 DEF W25QXX_Write_Page
  <2>. QED
    BY <1>3, <2>1, PageStep
<1>. QED
  BY <1>1, <1>2, <1>3 DEF W25QXX_Write

\* A write to erased cells erases nothing.
LEMMA FreshKeeps ==
  ASSUME FontsFit, ChipType, WriteInv, NEW n \in Nat, Fresh(n), W25QXX_Write
  PROVE  \A c \in Cell : flash'[c] \in {flash[c], want[c]}
<1>1. CASE CheckSector
  BY <1>1 DEF CheckSector
<1>2. CASE EraseForWrite
  BY <1>2 DEF EraseForWrite, Fresh
<1>3. CASE W25QXX_Write_Page
  BY <1>3, PageStep
<1>. QED
  BY <1>1, <1>2, <1>3 DEF W25QXX_Write

LEMMA FreshStep ==
  ASSUME FontsFit, ChipType, WriteInv, NEW n \in Nat, Fresh(n), W25QXX_Write
  PROVE  Fresh(n)'
<1> DEFINE m == Len(wdata)
<1>0. waddr \in Nat /\ paddr \in Nat
  BY DEF ChipType
<1>1. CASE CheckSector
  <2>1. wpc = "check" /\ UNCHANGED <<flash, waddr, wdata>>
    BY <1>1 DEF CheckSector
  <2>2. m \in Nat /\ Remain \in 1..m
    BY <2>1, PieceFacts
  <2>3. waddr + m = n /\ \A c \in Span(waddr, m) : flash[c] = FF
    BY <2>1 DEF Fresh
  <2>4. \A c \in Span(waddr, Remain) \cup Later : c \in Span(waddr, m)
    <3> HIDE DEF m
    <3>. QED
      BY <1>0, <2>2 DEF Span, Later, m
  <2>5. wpc' = "program" /\ paddr' = waddr /\ pdata' = SubSeq(wdata, 1, Remain)
    BY <1>1, <2>3, <2>4 DEF CheckSector
  <2>6. Len(pdata') = Remain
    <3>1. wdata \in Seq(Value) /\ Remain \in 0..Len(wdata)
      BY <2>2 DEF ChipType
    <3>. QED
      BY <2>5, <3>1, Parts
  <2>7. Later' = Later /\ Remain' = Remain
    BY <2>1 DEF Later, Remain
  <2>. QED
    BY <2>1, <2>3, <2>4, <2>5, <2>6, <2>7 DEF Fresh
<1>2. CASE EraseForWrite
  BY <1>2 DEF EraseForWrite, Fresh
<1>3. CASE W25QXX_Write_Page
  <2> DEFINE p == Len(pdata)
  <2>1. /\ wpc = "program" /\ flash' = Programmed(Span(paddr, PageLen), paddr, pdata)
        /\ paddr' = paddr + PageLen /\ pdata' = SubSeq(pdata, PageLen + 1, p)
        /\ IF PageLen = p THEN SectorDone ELSE UNCHANGED <<wpc, waddr, wdata>>
    BY <1>3 DEF W25QXX_Write_Page
  <2>2. m \in Nat /\ Remain \in 1..m /\ p \in Nat /\ PageLen \in 1..p
        /\ pdata \in Seq(Value) /\ wdata \in Seq(Value)
    BY <2>1, PieceFacts, PageFacts DEF ChipType
  <2>3. waddr + m = n /\ paddr + p = waddr + Remain /\ \A c \in Later : flash[c] = FF
    BY <2>1 DEF Fresh
  <2>4. Later = Span(waddr + Remain, m - Remain)
    BY DEF Later
  <2>5. \A c \in Later : c \notin Span(paddr, PageLen) /\ c \in Cell
    <3> DEFINE N == SECTOR * SECTORS
    <3>1. waddr + m <= N /\ N \in Nat /\ Cell = 0..(N - 1)
      BY AreaFacts DEF ChipType
    <3> HIDE DEF m, p, N
    <3>. QED
      BY <1>0, <2>2, <2>3, <2>4, <3>1 DEF Span
  <2>6. \A c \in Later : flash'[c] = FF
    <3>1. Span(paddr, PageLen) \in SUBSET Span(paddr, PageLen)
      OBVIOUS
    <3>. QED
      BY <2>1, <2>3, <2>5, <3>1, ProgramCells
  <2>7. Len(SubSeq(pdata, PageLen + 1, p)) = p - PageLen
        /\ Len(SubSeq(wdata, Remain + 1, m)) = m - Remain
    <3>1. PageLen \in 0..Len(pdata) /\ Remain \in 0..Len(wdata)
      BY <2>2
    <3>. QED
      BY <2>2, <3>1, Parts
  <2> HIDE DEF m, p
  <2>8. CASE PageLen # p
    <3>1. UNCHANGED <<wpc, waddr, wdata>>
      BY <2>1, <2>8
    <3>2. Later' = Later /\ Remain' = Remain
      BY <3>1 DEF Later, Remain
    <3>3. paddr' + Len(pdata') = waddr + Remain
      BY <1>0, <2>1, <2>2, <2>3, <2>7
    <3>. QED
      BY <2>1, <2>3, <2>6, <3>1, <3>2, <3>3 DEF Fresh, m
  <2>9. CASE PageLen = p
    <3>1. CASE Remain = m
      <4>1. wpc' = "none"
        BY <2>1, <2>9, <3>1 DEF SectorDone, m
      <4>. QED
        BY <4>1 DEF Fresh
    <3>2. CASE Remain # m
      <4>1. wpc' = "check" /\ waddr' = waddr + Remain /\ wdata' = SubSeq(wdata, Remain + 1, m)
        BY <2>1, <2>9, <3>2 DEF SectorDone, m
      <4>2. waddr' + Len(wdata') = n /\ Span(waddr', Len(wdata')) = Later
        BY <1>0, <2>2, <2>3, <2>4, <2>7, <4>1
      <4>. QED
        BY <2>6, <4>1, <4>2 DEF Fresh
    <3>. QED
      BY <3>1, <3>2
  <2>. QED
    BY <2>8, <2>9
<1>. QED
  BY <1>1, <1>2, <1>3 DEF W25QXX_Write

\* The power fails.
LEMMA PowerStep ==
  ASSUME FontsFit, ChipType, WriteInv, ChipLosesPower
  PROVE  /\ ChipType' /\ WriteInv' /\ wpc' = "none"
         /\ wpc = "none" => flash' = flash
         /\ \A c \in Cell : flash'[c] \in {flash[c], want[c]}
<1>1. /\ wpc' = "none" /\ waddr' = 0 /\ wdata' = <<>> /\ paddr' = 0 /\ pdata' = <<>>
      /\ want' = flash'
  BY DEF ChipLosesPower
<1>2. flash \in [Cell -> Value]
  BY DEF ChipType
<1>3. /\ flash' \in [Cell -> Value]
      /\ wpc = "none" => flash' = flash
      /\ \A c \in Cell : flash'[c] \in {flash[c], want[c]}
  <2>1. CASE UNCHANGED flash
    BY <1>2, <2>1
  <2>2. ASSUME wpc = "program", NEW these \in SUBSET Span(paddr, PageLen),
               flash' = Programmed(these, paddr, pdata)
        PROVE  /\ flash' \in [Cell -> Value]
               /\ wpc = "none" => flash' = flash
               /\ \A c \in Cell : flash'[c] \in {flash[c], want[c]}
    BY <2>2, ProgramCells
  <2>. QED
    BY <2>1, <2>2 DEF ChipLosesPower
<1>4. <<>> \in Seq(Value) /\ Len(<<>>) = 0 /\ 0 + 0 <= SECTOR * SECTORS
  BY AreaFacts, EmptySeq
<1>5. ChipType'
  BY <1>1, <1>3, <1>4 DEF ChipType
<1>6. WriteInv'
  BY <1>1 DEF WriteInv
<1>. QED
  BY <1>1, <1>3, <1>5, <1>6

-----------------------------------------------------------------------------
(* The addresses and the data of the fonts.                                *)

LEMMA FontFacts ==
  /\ NF \in 1..4 /\ NF \in Nat /\ Font = 0..(NF - 1) /\ 0 \in Font
  /\ \A f \in Font : f \in Nat /\ f \in 0..NF /\ f + 1 \in 0..NF /\ (f > 0 => f - 1 \in Font)
  /\ \A v \in Card, f \in Font : FileLen[v][f] \in Nat /\ FileLen[v][f] > 0
<1>1. NF \in 1..4 /\ NF \in Nat /\ Font = 0..(NF - 1)
  BY FontAssumption DEF Font
<1>2. 0 \in Font
  BY <1>1
<1>3. \A f \in Font : f \in Nat /\ f \in 0..NF /\ f + 1 \in 0..NF /\ (f > 0 => f - 1 \in Font)
  BY <1>1
<1>4. \A v \in Card, f \in Font : FileLen[v][f] \in Nat /\ FileLen[v][f] > 0
  BY FontAssumption
<1>. QED
  BY <1>1, <1>2, <1>3, <1>4

\* Where the fonts may begin.
LEMMA TopFacts ==
  ASSUME FontsFit, NEW f \in Font
  PROVE  /\ Top[f] \in Nat /\ Top[f + 1] \in Nat
         /\ InfoLen <= Top[f] /\ Top[f] <= SECTOR * FONTSECSIZE
         /\ InfoLen <= Top[f + 1] /\ Top[f + 1] <= SECTOR * FONTSECSIZE
         /\ \A v \in Card :
              /\ Top[f] + FileLen[v][f] <= Top[f + 1]
              /\ Top[f] + (FileLen[v][f] \div SECTOR + 1) * SECTOR <= SECTOR * FONTSECSIZE
<1> DEFINE Z == SECTOR * FONTSECSIZE
<1>1. f \in 0..NF /\ f + 1 \in 0..NF
  BY FontFacts
<1>2. Z \in Nat /\ Top \in [0..NF -> InfoLen..Z]
  BY AreaFacts DEF Fits
<1>3. \A v \in Card : /\ Top[f] + FileLen[v][f] <= Top[f + 1]
                      /\ Top[f] + (FileLen[v][f] \div SECTOR + 1) * SECTOR <= Z
  BY AreaFacts DEF Fits
<1> HIDE DEF Z
<1>4. Top[f] \in InfoLen..Z /\ Top[f + 1] \in InfoLen..Z
  BY <1>1, <1>2
<1>5. /\ Top[f] \in Nat /\ InfoLen <= Top[f] /\ Top[f] <= Z
      /\ Top[f + 1] \in Nat /\ InfoLen <= Top[f + 1] /\ Top[f + 1] <= Z
  BY <1>2, <1>4 DEF InfoLen
<1>. QED
  BY <1>3, <1>5 DEF Z

\* The addresses of ftinfo and the area.
LEMMA InfoFacts ==
  ASSUME FontsFit, NEW inf \in Info, NEW f \in Font
  PROVE  /\ inf.addr \in [Font -> Nat] /\ inf.size \in [Font -> Int]
         /\ inf.addr[f] \in Nat /\ inf.size[f] \in Int
         /\ inf.addr[f] + inf.size[f] \in Nat
         /\ inf.addr[f] + inf.size[f] <= Ones + Top[f + 1]
         /\ inf.addr[f] + inf.size[f] <= SECTOR * SECTORS
<1>1. inf.addr \in [Font -> Nat] /\ inf.size \in [Font -> Int]
      /\ inf.addr[f] + inf.size[f] \in 0..(Ones + Top[f + 1])
  BY DEF Info
<1> DEFINE e == inf.addr[f] + inf.size[f]
           N == SECTOR * SECTORS
           Z == SECTOR * FONTSECSIZE
<1>2. Top[f + 1] \in Nat /\ Top[f + 1] <= Z
  BY TopFacts
<1>3. N \in Nat /\ Z \in Nat /\ Ones \in Nat /\ Ones + Z <= N
  BY AreaFacts
<1>4. e \in 0..(Ones + Top[f + 1])
  BY <1>1
<1>5. inf.addr[f] \in Nat /\ inf.size[f] \in Int
  BY <1>1
<1> HIDE DEF e, N, Z
<1>6. e \in Nat /\ e <= Ones + Top[f + 1] /\ e <= N
  BY <1>2, <1>3, <1>4
<1>. QED
  BY <1>1, <1>5, <1>6 DEF e, N

\* ftinfo without power and as read from erased flash.
LEMMA NoInfoFits == ASSUME FontsFit PROVE NoInfo \in Info /\ AllOnes \in Info
<1>1. /\ NoInfo \in [addr : [Font -> Nat], size : [Font -> Int]]
      /\ AllOnes \in [addr : [Font -> Nat], size : [Font -> Int]]
  BY AreaFacts DEF NoInfo, AllOnes
<1>2. ASSUME NEW f \in Font
      PROVE  /\ NoInfo.addr[f] + NoInfo.size[f] \in 0..(Ones + Top[f + 1])
             /\ AllOnes.addr[f] + AllOnes.size[f] \in 0..(Ones + Top[f + 1])
  <2>1. Top[f + 1] \in Nat
    BY TopFacts
  <2>2. Ones \in Nat /\ Ones >= 1
    <3> DEFINE Z == SECTOR * FONTSECSIZE
    <3>1. Ones \in Nat /\ Z \in Nat /\ InfoLen < Z /\ Z <= Ones
      BY AreaFacts
    <3> HIDE DEF Z
    <3>. QED
      BY <3>1 DEF InfoLen
  <2>3. NoInfo.addr[f] = 0 /\ NoInfo.size[f] = 0
    BY DEF NoInfo
  <2>4. AllOnes.addr[f] = Ones /\ AllOnes.size[f] = -1
    BY DEF AllOnes
  <2>. QED
    BY <2>1, <2>2, <2>3, <2>4
<1>. QED
  BY <1>1, <1>2 DEF Info

\* What font_init reads.
LEMMA InfoRead ==
  ASSUME NEW x \in Value, x[1] = "info"
  PROVE  [addr |-> x[2], size |-> x[3]] \in Info
<1>1. \A y \in {"font"} \X Card \X Font \X Nat : y[1] = "font"
  OBVIOUS
<1>2. FF[1] = "FF" /\ Junk[1] = "junk" /\ FontOk[1] = "0XAA" /\ Other[1] = "other"
  BY DEF FF, Junk, FontOk, Other
<1>3. PICK inf \in Info : x = InfoCell(inf)
  BY <1>1, <1>2 DEF Value
<1>4. x[2] = inf.addr /\ x[3] = inf.size
  BY <1>3 DEF InfoCell
<1>5. inf = [addr |-> inf.addr, size |-> inf.size]
  BY DEF Info
<1>. QED
  BY <1>4, <1>5

\* updata_fontx puts the font where the one before it ends.
LEMMA OpenedFits ==
  ASSUME FontsFit, ProgType, PlaceInv, OpenFont
  PROVE  /\ ftinfo' \in Info
         /\ ftinfo'.addr[fx] = Mark
         /\ ftinfo'.size[fx] = FileLen[card][fx]
         /\ \A f \in Font : f # fx => /\ ftinfo'.addr[f] = ftinfo.addr[f]
                                      /\ ftinfo'.size[f] = ftinfo.size[f]
<1> DEFINE a == Mark
           n == FileLen[card][fx]
<1>1. ftinfo' = [addr |-> [ftinfo.addr EXCEPT ![fx] = a], size |-> [ftinfo.size EXCEPT ![fx] = n]]
  BY DEF OpenFont, Mark
<1>2. fx \in Font /\ card \in Card /\ ftinfo \in Info
  BY DEF ProgType
<1>3. n \in Nat /\ Ones \in Nat
  BY <1>2, FontFacts, AreaFacts
<1>4. Top[fx] \in Nat /\ Top[fx + 1] \in Nat /\ Top[fx] + n <= Top[fx + 1]
  BY <1>2, TopFacts
<1>5. a \in Nat /\ a <= Base + Top[fx]
  BY DEF OpenFont, PlaceInv
<1>6. Base \in Nat /\ Base <= Ones
  BY <1>3 DEF Base
<1> HIDE DEF a, n
<1>7. ftinfo.addr \in [Font -> Nat] /\ ftinfo.size \in [Font -> Int]
      /\ \A f \in Font : ftinfo.addr[f] + ftinfo.size[f] \in 0..(Ones + Top[f + 1])
  BY <1>2 DEF Info
<1>8. /\ ftinfo'.addr = [ftinfo.addr EXCEPT ![fx] = a]
      /\ ftinfo'.size = [ftinfo.size EXCEPT ![fx] = n]
  BY <1>1
<1>9. /\ ftinfo'.addr \in [Font -> Nat] /\ ftinfo'.size \in [Font -> Int]
      /\ ftinfo'.addr[fx] = a /\ ftinfo'.size[fx] = n
      /\ \A f \in Font : f # fx => /\ ftinfo'.addr[f] = ftinfo.addr[f]
                                   /\ ftinfo'.size[f] = ftinfo.size[f]
  BY <1>2, <1>3, <1>5, <1>7, <1>8
<1>10. a + n \in 0..(Ones + Top[fx + 1])
  BY <1>3, <1>4, <1>5, <1>6
<1>11. \A f \in Font : ftinfo'.addr[f] + ftinfo'.size[f] \in 0..(Ones + Top[f + 1])
  BY <1>7, <1>9, <1>10
<1>12. ftinfo' \in [addr : [Font -> Nat], size : [Font -> Int]]
  BY <1>1, <1>8, <1>9
<1>13. ftinfo' \in Info
  BY <1>11, <1>12 DEF Info
<1>. QED
  BY <1>9, <1>13 DEF a, n

\* One block of a font: bread cells of the file, and what tempbuf held before.
Block(old) == Bytes(card, fx, offx, bread) \o [k \in 1..(SECTOR - bread) |-> old]

LEMMA BlockFacts ==
  ASSUME FontsFit, ProgType, PlaceInv, upc \in {"read", "copy"}, NEW old \in {Junk, FF}
  PROVE  /\ bread \in Nat /\ bread <= SECTOR /\ offx + bread <= ftinfo.size[fx]
         /\ bread = SECTOR \/ offx + bread = ftinfo.size[fx]
         /\ Block(old) \in Seq(Value) /\ Len(Block(old)) = SECTOR /\ Block(old) # <<>>
         /\ \A k \in 1..SECTOR : Block(old)[k] = IF k <= bread
                                                 THEN <<"font", card, fx, offx + k - 1>>
                                                 ELSE old
         /\ ftinfo.addr[fx] + offx \in Nat
         /\ (ftinfo.addr[fx] + offx) + SECTOR <= SECTOR * SECTORS
         /\ ~skipped => (ftinfo.addr[fx] + offx) + SECTOR <= SECTOR * FONTSECSIZE
<1> DEFINE s == ftinfo.size[fx]
           a == ftinfo.addr[fx]
           N == SECTOR * SECTORS
           Z == SECTOR * FONTSECSIZE
           left == Bytes(card, fx, offx, bread)
           right == [k \in 1..(SECTOR - bread) |-> old]
<1>1. /\ fx \in Font /\ card \in Card /\ ftinfo \in Info /\ offx \in Nat /\ offx <= s
      /\ SECTOR \in Nat \ {0} /\ N \in Nat
  BY AreaFacts DEF ProgType, PlaceInv
<1>2. /\ s = FileLen[card][fx] /\ a \in Nat /\ a <= Base + Top[fx]
  BY DEF PlaceInv, Mark
<1>20. s \in Nat
  BY <1>1, <1>2, FontFacts
<1>3. bread = IF SECTOR < s - offx THEN SECTOR ELSE s - offx
  BY DEF bread, Lesser
<1> HIDE DEF s, a, N, Z
<1>4. /\ bread \in Nat /\ bread <= SECTOR /\ offx + bread <= s
      /\ bread = SECTOR \/ offx + bread = s
  BY <1>1, <1>20, <1>3
<1>5. /\ a + offx \in Nat /\ (a + offx) + SECTOR <= N
      /\ ~skipped => (a + offx) + SECTOR <= Z
  <2> DEFINE q == s \div SECTOR
             e == SECTOR * (q + 1)
  <2>1. PICK j \in Nat : offx = SECTOR * j
    BY DEF PlaceInv
  <2>2. q \in Nat /\ j <= q
    BY <1>1, <1>20, <2>1, MultipleBelow
  <2>3. offx + SECTOR <= e /\ e \in Nat /\ e = (s \div SECTOR + 1) * SECTOR
    BY <1>1, <2>1, <2>2, NextMultiple
  <2>4. Top[fx] \in Nat /\ Top[fx] + (s \div SECTOR + 1) * SECTOR <= Z
    BY <1>1, <1>2, TopFacts DEF Z
  <2>5. Ones \in Nat /\ Z \in Nat /\ Ones + Z <= N
    BY AreaFacts DEF N, Z
  <2>6. Base \in Nat /\ Base <= Ones /\ (~skipped => Base = 0)
    BY <2>5 DEF Base
  <2>7. Top[fx] + e <= Z
    BY <2>3, <2>4
  <2> HIDE DEF e
  <2>8. (a + offx) + SECTOR <= Base + Z
    BY <1>1, <1>2, <2>3, <2>4, <2>5, <2>6, <2>7
  <2>. QED
    BY <1>1, <1>2, <2>5, <2>6, <2>8
<1>6. /\ left \in [1..bread -> Value]
      /\ \A k \in 1..bread : left[k] = <<"font", card, fx, offx + k - 1>>
  <2>1. \A k \in 1..bread : offx + k - 1 \in Nat
    BY <1>1, <1>4
  <2>2. \A k \in 1..bread : <<"font", card, fx, offx + k - 1>> \in Value
    BY <1>1, <2>1, ValueFacts
  <2>. QED
    BY <2>2 DEF Bytes
<1>7. left \in Seq(Value)
  BY <1>4, <1>6, SeqDef
<1>18. Len(left) = bread
  BY <1>4, <1>6, <1>7, LenProperties
<1>8. SECTOR - bread \in Nat
  BY <1>1, <1>4
<1>9. right \in [1..(SECTOR - bread) -> Value]
  BY ValueFacts
<1>10. right \in Seq(Value)
  BY <1>8, <1>9, SeqDef
<1>19. Len(right) = SECTOR - bread
  BY <1>8, <1>9, <1>10, LenProperties
<1>11. \A k \in 1..(SECTOR - bread) : right[k] = old
  OBVIOUS
<1>12. Block(old) = left \o right
  BY DEF Block
<1> HIDE DEF left, right
<1>13. /\ Block(old) \in Seq(Value) /\ Len(Block(old)) = bread + (SECTOR - bread)
       /\ \A k \in 1..(bread + (SECTOR - bread)) :
            Block(old)[k] = IF k <= bread THEN left[k] ELSE right[k - bread]
  <2>1. /\ left \o right \in Seq(Value) /\ Len(left \o right) = Len(left) + Len(right)
        /\ \A k \in 1..(Len(left) + Len(right)) :
             (left \o right)[k] = IF k <= Len(left) THEN left[k] ELSE right[k - Len(left)]
    BY <1>7, <1>10, ConcatProperties
  <2>. QED
    BY <1>18, <1>19, <1>12, <2>1
<1>14. bread + (SECTOR - bread) = SECTOR
  BY <1>1, <1>4
<1>15. \A k \in 1..SECTOR : /\ k <= bread => k \in 1..bread
                            /\ ~(k <= bread) => k - bread \in 1..(SECTOR - bread)
  BY <1>1, <1>4
<1>16. \A k \in 1..SECTOR : Block(old)[k] = IF k <= bread
                                            THEN <<"font", card, fx, offx + k - 1>> ELSE old
  BY <1>6, <1>11, <1>13, <1>14, <1>15
<1>17. Len(Block(old)) = SECTOR /\ Block(old) # <<>>
  BY <1>1, <1>13, <1>14, EmptySeq
<1>. QED
  BY <1>4, <1>5, <1>13, <1>16, <1>17 DEF s, a, N, Z

-----------------------------------------------------------------------------
(* The steps of the update.                                                *)

\* The steps that do not touch the chip.
LEMMA QuietSteps ==
  ASSUME \/ font_init \/ AllErased \/ OpenFont \/ NoTempbuf \/ BlockCopied \/ InfoSaved
         \/ FileFails \/ UNCHANGED vars
         \/ \E v \in Card : BeginUpdate(v)
         \/ \E code \in {5, 16} : Refuse(code)
  PROVE  UNCHANGED chip
  BY DEF font_init, AllErased, OpenFont, NoTempbuf, BlockCopied, InfoSaved, FileFails, vars,
         BeginUpdate, Refuse

\* The addresses and fontok: what SaveInfo writes.
LEMMA HeadFacts ==
  ASSUME FontsFit, ftinfo \in Info
  PROVE  /\ <<FontOk, InfoCell(ftinfo)>> \in Seq(Value)
         /\ <<FontOk, InfoCell(ftinfo)>> # <<>>
         /\ Len(<<FontOk, InfoCell(ftinfo)>>) = InfoLen
         /\ 0 + InfoLen <= SECTOR * SECTORS
<1>1. FontOk \in Value /\ InfoCell(ftinfo) \in Value
  BY ValueFacts
<1> DEFINE x == InfoCell(ftinfo)
<1> HIDE DEF x
<1>2. <<FontOk, x>> \in Seq(Value)
  BY <1>1 DEF x
<1>3. Len(<<FontOk, x>>) = 2 /\ <<FontOk, x>> # <<>>
  BY <1>2, EmptySeq
<1> DEFINE N == SECTOR * SECTORS
<1>4. N \in Nat /\ N > InfoLen
  BY AreaFacts
<1> HIDE DEF N
<1>5. 0 + InfoLen <= N
  BY <1>4 DEF InfoLen
<1>. QED
  BY <1>2, <1>3, <1>5 DEF InfoLen, x, N

\* A sector of the area is erased, unless it is empty.
LEMMA EraseCells ==
  ASSUME FontsFit, ChipType, ProgType, EraseNext
  PROVE  /\ flash' \in [Cell -> Value] /\ i \in Nat
         /\ \A c \in Cell : flash'[c] = IF c \in SectorCells(i) THEN FF ELSE flash[c]
<1>1. i \in Nat /\ FF \in Value /\ flash \in [Cell -> Value]
  BY ValueFacts DEF ProgType, ChipType
<1>2. CASE \A c \in SectorCells(i) : flash[c] = FF
  <2>1. flash' = flash
    BY <1>2 DEF EraseNext
  <2>. QED
    BY <1>1, <1>2, <2>1
<1>3. CASE ~(\A c \in SectorCells(i) : flash[c] = FF)
  <2>1. flash' = [c \in Cell |-> IF c \in SectorCells(i) THEN FF ELSE flash[c]]
    BY <1>3 DEF EraseNext, Erased
  <2>. QED
    BY <1>1, <2>1
<1>. QED
  BY <1>2, <1>3

\* updata_fontx begins to write a block.
LEMMA CopyCells ==
  ASSUME FontsFit, BaseInv, CopyBlock
  PROVE  /\ ChipType' /\ WriteInv' /\ wpc' = "check" /\ flash' = flash
         /\ \E old \in {Junk, FF} : \A c \in Cell :
              want'[c] = IF c \in Span(ftinfo.addr[fx] + offx, SECTOR)
                         THEN Block(old)[c - (ftinfo.addr[fx] + offx) + 1]
                         ELSE flash[c]
<1>1. PICK old \in {Junk, FF} : BeginWrite(ftinfo.addr[fx] + offx, Block(old))
  BY DEF CopyBlock, Block
<1>2. ChipType /\ ProgType /\ PlaceInv /\ upc \in {"read", "copy"}
  BY DEF BaseInv, CopyBlock
<1> DEFINE data == Block(old)
           a == ftinfo.addr[fx] + offx
<1>3. /\ data \in Seq(Value) /\ Len(data) = SECTOR /\ data # <<>>
      /\ a \in Nat /\ a + SECTOR <= SECTOR * SECTORS
  BY <1>2, BlockFacts
<1>4. BeginWrite(a, data)
  BY <1>1
<1> HIDE DEF data, a
<1>5. /\ ChipType' /\ WriteInv' /\ wpc' = "check" /\ flash' = flash
      /\ \A c \in Cell : want'[c] = IF c \in Span(a, SECTOR) THEN data[c - a + 1] ELSE flash[c]
  BY <1>2, <1>3, <1>4, BeginWriteStep
<1>. QED
  BY <1>5 DEF data, a

LEMMA SaveCells ==
  ASSUME FontsFit, BaseInv, SaveInfo
  PROVE  /\ ChipType' /\ WriteInv' /\ wpc' = "check" /\ flash' = flash
         /\ waddr' = 0 /\ wdata' = <<FontOk, InfoCell(ftinfo)>>
         /\ want'[0] = FontOk /\ want'[1] = InfoCell(ftinfo)
         /\ \A c \in Cell : c >= InfoLen => want'[c] = flash[c]
<1> DEFINE data == <<FontOk, InfoCell(ftinfo)>>
<1>1. BeginWrite(0, data)
  BY DEF SaveInfo
<1>2. /\ data \in Seq(Value) /\ data # <<>> /\ Len(data) = InfoLen
      /\ 0 + InfoLen <= SECTOR * SECTORS /\ 0 \in Nat /\ ChipType
  BY HeadFacts DEF BaseInv, ProgType
<1>3. data[1] = FontOk /\ data[2] = InfoCell(ftinfo)
  OBVIOUS
<1> HIDE DEF data
<1>4. /\ ChipType' /\ WriteInv' /\ wpc' = "check" /\ flash' = flash
      /\ waddr' = 0 /\ wdata' = data
      /\ \A c \in Cell : want'[c] = IF c \in Span(0, InfoLen) THEN data[c - 0 + 1] ELSE flash[c]
  BY <1>1, <1>2, BeginWriteStep
<1>5. /\ 0 \in Cell /\ 1 \in Cell /\ \A c \in Cell : c \in Nat
  BY AreaFacts
<1>6. /\ 0 \in Span(0, InfoLen) /\ 1 \in Span(0, InfoLen) /\ 0 - 0 + 1 = 1 /\ 1 - 0 + 1 = 2
      /\ \A c \in Cell : c >= InfoLen => c \notin Span(0, InfoLen)
  BY <1>5 DEF Span, InfoLen
<1>7. want'[0] = FontOk /\ want'[1] = InfoCell(ftinfo)
  BY <1>3, <1>4, <1>5, <1>6
<1>8. \A c \in Cell : c >= InfoLen => want'[c] = flash[c]
  BY <1>4, <1>6
<1>. QED
  BY <1>4, <1>7, <1>8 DEF data

LEMMA ChipStep ==
  ASSUME FontsFit, BaseInv, [Next]_vars
  PROVE  ChipType' /\ WriteInv'
<1>0. ChipType /\ WriteInv /\ ProgType /\ StageInv
  BY DEF BaseInv
<1>1. CASE UNCHANGED chip
  BY <1>0, <1>1 DEF chip, ChipType, WriteInv, Later, Remain, Sec
<1>2. CASE EraseNext
  <2>1. flash' \in [Cell -> Value] /\ UNCHANGED write /\ wpc = "none"
    BY <1>0, <1>2, EraseCells DEF EraseNext, StageInv
  <2>. QED
    BY <1>0, <2>1 DEF write, ChipType, WriteInv
<1>3. CASE CopyBlock
  BY <1>3, CopyCells
<1>4. CASE SaveInfo
  BY <1>4, SaveCells
<1>5. CASE FlashBusy
  BY <1>0, <1>5, WriteStep DEF FlashBusy
<1>6. CASE LosePower
  BY <1>0, <1>6, PowerStep DEF LosePower
<1>. QED
  BY <1>1, <1>2, <1>3, <1>4, <1>5, <1>6, QuietSteps DEF Next, update_font

LEMMA ProgStep ==
  ASSUME FontsFit, BaseInv, [Next]_vars
  PROVE  ProgType'
<1>0. /\ ChipType /\ StageInv /\ PlaceInv /\ ProgType
      /\ upc \in {"off", "idle", "erase", "open", "read", "copy", "save", "saving"}
      /\ card \in Card /\ i \in 0..FONTSECSIZE /\ fx \in Font /\ offx \in Nat
      /\ rval \in {0, 5, 16, NoResult} \cup 1..NF /\ skipped \in BOOLEAN
      /\ ftinfo \in Info
  BY DEF BaseInv, ProgType
<1>1. CASE font_init
  <2>1. UNCHANGED <<card, i, fx, offx, rval, skipped>> /\ upc' = "idle"
        /\ ftinfo' = IF flash[1][1] = "info"
                     THEN [addr |-> flash[1][2], size |-> flash[1][3]] ELSE AllOnes
    BY <1>1 DEF font_init
  <2>2. flash[1] \in Value
    BY <1>0, AreaFacts DEF ChipType
  <2>3. ftinfo' \in Info
    BY <2>1, <2>2, InfoRead, NoInfoFits
  <2>. QED
    BY <1>0, <2>1, <2>3 DEF ProgType
<1>2. CASE EraseNext
  <2>1. UNCHANGED <<upc, card, fx, offx, ftinfo, rval, skipped>>
        /\ i < FONTSECSIZE /\ i' = i + 1
    BY <1>2 DEF EraseNext
  <2>2. i' \in 0..FONTSECSIZE
    BY <1>0, <2>1, AreaFacts
  <2>. QED
    BY <1>0, <2>1, <2>2 DEF ProgType
<1>3. CASE AllErased
  <2>1. UNCHANGED <<card, i, offx, ftinfo, rval, skipped>> /\ upc' = "open" /\ fx' = 0
    BY <1>3 DEF AllErased
  <2>. QED
    BY <1>0, <2>1, FontFacts DEF ProgType
<1>4. CASE OpenFont
  <2>1. UNCHANGED <<card, i, fx, rval, skipped>> /\ upc' = "read" /\ offx' = 0
    BY <1>4 DEF OpenFont
  <2>2. ftinfo' \in Info
    BY <1>0, <1>4, OpenedFits
  <2>. QED
    BY <1>0, <2>1, <2>2 DEF ProgType
<1>5. ASSUME FontDone PROVE fx' \in Font /\ upc' \in {"save", "open"}
  <2>1. CASE fx = NF - 1
    BY <1>0, <1>5, <2>1 DEF FontDone
  <2>2. CASE fx # NF - 1
    <3>1. upc' = "open" /\ fx' = fx + 1
      BY <1>5, <2>2 DEF FontDone
    <3>. QED
      BY <1>0, <2>2, <3>1, FontFacts
  <2>. QED
    BY <2>1, <2>2
<1>6. CASE NoTempbuf
  <2>1. FontDone /\ skipped' = TRUE /\ UNCHANGED <<card, i, offx, ftinfo, rval>>
    BY <1>6 DEF NoTempbuf
  <2>. QED
    BY <1>0, <1>5, <2>1 DEF ProgType
<1>7. CASE BlockCopied
  <2>1. /\ UNCHANGED <<card, i, ftinfo, rval, skipped>> /\ upc = "copy" /\ offx' = offx + bread
        /\ (upc' = "read" /\ fx' = fx) \/ FontDone
    BY <1>7 DEF BlockCopied
  <2>3. bread \in Nat
    BY <1>0, <2>1, BlockFacts
  <2>4. offx' \in Nat
    BY <1>0, <2>1, <2>3
  <2>5. fx' \in Font /\ upc' \in {"save", "open", "read"}
    BY <1>0, <1>5, <2>1
  <2>. QED
    BY <1>0, <2>1, <2>4, <2>5 DEF ProgType
<1>8. CASE CopyBlock \/ SaveInfo \/ FlashBusy \/ UNCHANGED vars
  <2>1. UNCHANGED ram /\ upc' \in {upc, "copy", "saving"}
    BY <1>8 DEF CopyBlock, SaveInfo, FlashBusy, vars
  <2>. QED
    BY <1>0, <2>1 DEF ram, ProgType
<1>9. CASE InfoSaved
  <2>1. UNCHANGED <<card, i, fx, offx, ftinfo, skipped>> /\ rval' = 0 /\ upc' = "idle"
    BY <1>9 DEF InfoSaved
  <2>. QED
    BY <1>0, <2>1 DEF ProgType
<1>10. CASE FileFails
  <2>1. UNCHANGED <<card, i, fx, offx, ftinfo, skipped>> /\ rval' = fx + 1 /\ upc' = "idle"
    BY <1>10 DEF FileFails
  <2>2. fx + 1 \in 1..NF
    BY <1>0, FontFacts
  <2>. QED
    BY <1>0, <2>1, <2>2 DEF ProgType
<1>11. CASE LosePower
  <2>1. /\ UNCHANGED <<card, rval, skipped>> /\ upc' = "off"
        /\ i' = 0 /\ fx' = 0 /\ offx' = 0 /\ ftinfo' = NoInfo
    BY <1>11 DEF LosePower
  <2>2. 0 \in 0..FONTSECSIZE
    BY AreaFacts
  <2>. QED
    BY <1>0, <2>1, <2>2, FontFacts, NoInfoFits DEF ProgType
<1>12. ASSUME NEW v \in Card, BeginUpdate(v) PROVE ProgType'
  <2>1. /\ UNCHANGED <<fx, offx, ftinfo, skipped>> /\ rval' = NoResult /\ upc' = "erase"
        /\ card' = v /\ i' = 0
    BY <1>12 DEF BeginUpdate
  <2>2. 0 \in 0..FONTSECSIZE
    BY AreaFacts
  <2>. QED
    BY <1>0, <2>1, <2>2 DEF ProgType
<1>13. ASSUME NEW code \in {5, 16}, Refuse(code) PROVE ProgType'
  <2>1. UNCHANGED <<upc, card, i, fx, offx, ftinfo, skipped>> /\ rval' = code
    BY <1>13 DEF Refuse
  <2>. QED
    BY <1>0, <2>1 DEF ProgType
<1>. QED
  BY <1>1, <1>2, <1>3, <1>4, <1>6, <1>7, <1>8, <1>9, <1>10, <1>11, <1>12, <1>13
     DEF Next, update_font

LEMMA StageStep ==
  ASSUME FontsFit, BaseInv, [Next]_vars
  PROVE  StageInv'
<1>0. /\ ChipType /\ WriteInv /\ ProgType
      /\ upc \notin {"copy", "saving"} => wpc = "none"
      /\ upc \in {"copy", "saving"} /\ wpc = "none" => flash = want
      /\ upc \notin {"off", "idle"} => rval = NoResult
  BY DEF BaseInv, StageInv
<1>1. CASE font_init
  <2>1. upc = "off" /\ upc' = "idle" /\ UNCHANGED chip
    BY <1>1 DEF font_init
  <2>. QED
    BY <1>0, <2>1 DEF StageInv, chip
<1>2. CASE EraseNext
  <2>1. upc = "erase" /\ UNCHANGED <<write, upc, rval>>
    BY <1>2 DEF EraseNext
  <2>. QED
    BY <1>0, <2>1 DEF StageInv, write
<1>3. CASE AllErased
  <2>1. upc = "erase" /\ upc' = "open" /\ UNCHANGED <<chip, rval>>
    BY <1>3 DEF AllErased
  <2>. QED
    BY <1>0, <2>1 DEF StageInv, chip
<1>4. CASE OpenFont
  <2>1. upc = "open" /\ upc' = "read" /\ UNCHANGED <<chip, rval>>
    BY <1>4 DEF OpenFont
  <2>. QED
    BY <1>0, <2>1 DEF StageInv, chip
<1>5. CASE NoTempbuf
  <2>1. upc = "open" /\ UNCHANGED <<chip, rval>> /\ upc' \in {"open", "save"}
    BY <1>5 DEF NoTempbuf, FontDone
  <2>. QED
    BY <1>0, <2>1 DEF StageInv, chip
<1>6. CASE CopyBlock
  <2>1. upc = "read" /\ upc' = "copy" /\ UNCHANGED ram
    BY <1>6 DEF CopyBlock
  <2>2. wpc' = "check"
    BY <1>6, CopyCells
  <2>. QED
    BY <1>0, <2>1, <2>2 DEF StageInv, ram
<1>7. CASE BlockCopied
  <2>1. /\ upc = "copy" /\ wpc = "none" /\ upc' \in {"read", "open", "save"}
        /\ UNCHANGED <<chip, rval>>
    BY <1>7 DEF BlockCopied, FontDone
  <2>. QED
    BY <1>0, <2>1 DEF StageInv, chip
<1>8. CASE SaveInfo
  <2>1. upc = "save" /\ upc' = "saving" /\ UNCHANGED ram
    BY <1>8 DEF SaveInfo
  <2>2. wpc' = "check"
    BY <1>8, SaveCells
  <2>. QED
    BY <1>0, <2>1, <2>2 DEF StageInv, ram
<1>9. CASE InfoSaved
  <2>1. wpc = "none" /\ upc' = "idle" /\ UNCHANGED chip
    BY <1>9 DEF InfoSaved
  <2>. QED
    BY <2>1 DEF StageInv, chip
<1>10. CASE FlashBusy
  <2>1. W25QXX_Write /\ UNCHANGED <<upc, ram>>
    BY <1>10 DEF FlashBusy
  <2>2. wpc # "none" /\ (wpc' = "none" => flash' = want')
    BY <1>0, <2>1, WriteStep
  <2>. QED
    BY <1>0, <2>1, <2>2 DEF StageInv, ram
<1>11. CASE FileFails
  <2>1. upc \in {"open", "read"} /\ upc' = "idle" /\ UNCHANGED chip
    BY <1>11 DEF FileFails
  <2>. QED
    BY <1>0, <2>1 DEF StageInv, chip
<1>12. CASE LosePower
  <2>1. upc' = "off" /\ wpc' = "none"
    BY <1>12 DEF LosePower, ChipLosesPower
  <2>. QED
    BY <2>1 DEF StageInv
<1>13. ASSUME NEW v \in Card, BeginUpdate(v) PROVE StageInv'
  <2>1. upc = "idle" /\ upc' = "erase" /\ rval' = NoResult /\ UNCHANGED chip
    BY <1>13 DEF BeginUpdate
  <2>. QED
    BY <1>0, <2>1 DEF StageInv, chip
<1>14. ASSUME NEW code \in {5, 16}, Refuse(code) PROVE StageInv'
  <2>1. upc = "idle" /\ upc' = "idle" /\ UNCHANGED chip
    BY <1>14 DEF Refuse
  <2>. QED
    BY <1>0, <2>1 DEF StageInv, chip
<1>15. CASE UNCHANGED vars
  BY <1>0, <1>15 DEF vars, chip, ram, StageInv
<1>. QED
  BY <1>1, <1>2, <1>3, <1>4, <1>5, <1>6, <1>7, <1>8, <1>9, <1>10, <1>11, <1>12, <1>13,
     <1>14, <1>15 DEF Next, update_font

LEMMA PlaceStep ==
  ASSUME FontsFit, BaseInv, [Next]_vars
  PROVE  PlaceInv'
<1>0. /\ ProgType /\ PlaceInv /\ StageInv /\ fx \in Font /\ card \in Card /\ ftinfo \in Info
      /\ skipped \in BOOLEAN /\ offx \in Nat
  BY DEF BaseInv, ProgType
<1>1. Ones \in Nat /\ Base \in Nat /\ Base <= Ones /\ SECTOR \in Nat \ {0}
  BY AreaFacts DEF Base
<1>2. CASE AllErased
  <2>1. upc' = "open" /\ fx' = 0
    BY <1>2 DEF AllErased
  <2>2. Mark' = InfoLen
    BY <2>1 DEF Mark
  <2>3. 0 \in Font /\ Top[0] \in Nat /\ InfoLen <= Top[0]
    BY FontFacts, TopFacts
  <2>4. Base' \in Nat
    BY <1>1 DEF Base
  <2>5. InfoLen \in Nat /\ InfoLen <= Base' + Top[0]
    BY <2>3, <2>4 DEF InfoLen
  <2>. QED
    BY <2>1, <2>2, <2>5 DEF PlaceInv
<1>3. CASE OpenFont
  <2>1. /\ upc = "open" /\ upc' = "read" /\ offx' = 0
        /\ UNCHANGED <<card, fx, skipped>>
    BY <1>3 DEF OpenFont
  <2>2. ftinfo'.addr[fx] = Mark /\ ftinfo'.size[fx] = FileLen[card][fx]
    BY <1>0, <1>3, OpenedFits
  <2>3. Mark' = Mark /\ Base' = Base
    BY <2>1, <2>2 DEF Mark, Base
  <2>4. Mark \in Nat /\ Mark <= Base + Top[fx]
    BY <1>0, <2>1 DEF PlaceInv
  <2>5. FileLen[card][fx] \in Nat /\ 0 \in Nat /\ 0 = SECTOR * 0
    BY <1>0, <1>1, FontFacts
  <2>. QED
    BY <2>1, <2>2, <2>3, <2>4, <2>5 DEF PlaceInv
<1>4. CASE NoTempbuf
  <2>1. upc = "open" /\ FontDone /\ skipped' = TRUE /\ ftinfo' = ftinfo
    BY <1>4 DEF NoTempbuf
  <2>2. CASE fx = NF - 1
    <3>1. upc' = "save"
      BY <2>1, <2>2 DEF FontDone
    <3>. QED
      BY <3>1 DEF PlaceInv
  <2>3. CASE fx # NF - 1
    <3>1. upc' = "open" /\ fx' = fx + 1
      BY <2>1, <2>3 DEF FontDone
    <3>2. fx + 1 # 0 /\ (fx + 1) - 1 = fx
      BY <1>0, FontFacts
    <3>3. Mark' = ftinfo.addr[fx] + ftinfo.size[fx] /\ Base' = Ones
      BY <2>1, <3>1, <3>2 DEF Mark, Base
    <3>4. /\ ftinfo.addr[fx] + ftinfo.size[fx] \in Nat
          /\ ftinfo.addr[fx] + ftinfo.size[fx] <= Ones + Top[fx + 1]
      BY <1>0, InfoFacts
    <3>. QED
      BY <3>1, <3>3, <3>4 DEF PlaceInv
  <2>. QED
    BY <2>2, <2>3
<1>5. CASE BlockCopied
  <2> DEFINE a == ftinfo.addr[fx]
             s == FileLen[card][fx]
  <2>1. /\ upc = "copy" /\ offx' = offx + bread /\ UNCHANGED <<card, ftinfo, skipped>>
        /\ IF bread = SECTOR THEN upc' = "read" /\ fx' = fx ELSE FontDone
    BY <1>5 DEF BlockCopied
  <2>2. /\ ftinfo.size[fx] = s /\ s \in Nat /\ offx + bread <= s
        /\ a \in Nat /\ a <= Base + Top[fx]
    BY <1>0, <2>1, BlockFacts, FontFacts DEF PlaceInv, Mark
  <2>3. Base' = Base
    BY <2>1 DEF Base
  <2>4. CASE bread = SECTOR
    <3>1. upc' = "read" /\ fx' = fx /\ Mark' = a
      BY <2>1, <2>4 DEF Mark
    <3>2. PICK j \in Nat : offx = SECTOR * j
      BY <1>0, <2>1 DEF PlaceInv
    <3>3. offx' = SECTOR * (j + 1) /\ j + 1 \in Nat
      BY <1>1, <2>1, <2>4, <3>2, NextMultiple
    <3>. QED
      BY <2>1, <2>2, <2>3, <3>1, <3>3 DEF PlaceInv
  <2>5. CASE bread # SECTOR
    <3>1. FontDone
      BY <2>1, <2>5
    <3>2. CASE fx = NF - 1
      <4>1. upc' = "save"
        BY <3>1, <3>2 DEF FontDone
      <4>. QED
        BY <4>1 DEF PlaceInv
    <3>3. CASE fx # NF - 1
      <4>1. upc' = "open" /\ fx' = fx + 1
        BY <3>1, <3>3 DEF FontDone
      <4>2. fx + 1 # 0 /\ (fx + 1) - 1 = fx
        BY <1>0, FontFacts
      <4>3. Mark' = a + s
        BY <2>1, <2>2, <4>1, <4>2 DEF Mark
      <4>4. Top[fx] \in Nat /\ Top[fx + 1] \in Nat /\ Top[fx] + s <= Top[fx + 1]
        BY <1>0, TopFacts
      <4> HIDE DEF a, s
      <4>5. a + s \in Nat /\ a + s <= Base + Top[fx + 1]
        BY <1>1, <2>2, <4>4
      <4>. QED
        BY <2>3, <4>1, <4>3, <4>5 DEF PlaceInv
    <3>. QED
      BY <3>2, <3>3
  <2>. QED
    BY <2>4, <2>5
<1>6. CASE CopyBlock \/ FlashBusy \/ UNCHANGED vars
  <2>1. UNCHANGED ram /\ (upc' = upc \/ (upc = "read" /\ upc' = "copy"))
    BY <1>6 DEF CopyBlock, FlashBusy, vars
  <2>2. UNCHANGED <<card, fx, offx, ftinfo, skipped>>
    BY <2>1 DEF ram
  <2>3. Mark' = Mark /\ Base' = Base
    BY <2>1, <2>2 DEF Mark, Base
  <2>. QED
    BY <1>0, <2>1, <2>2, <2>3 DEF PlaceInv
<1>7. CASE \/ font_init \/ EraseNext \/ SaveInfo \/ InfoSaved \/ FileFails \/ LosePower
           \/ \E v \in Card : BeginUpdate(v)
           \/ \E code \in {5, 16} : Refuse(code)
  <2>1. upc' \in {"off", "idle", "erase", "saving"}
    BY <1>7 DEF font_init, EraseNext, SaveInfo, InfoSaved, FileFails, LosePower, BeginUpdate,
                Refuse
  <2>. QED
    BY <2>1 DEF PlaceInv
<1>. QED
  BY <1>2, <1>3, <1>4, <1>5, <1>6, <1>7 DEF Next, update_font

LEMMA NotOkStep ==
  ASSUME FontsFit, BaseInv, NotOkInv, [Next]_vars
  PROVE  NotOkInv'
<1>0. /\ ChipType /\ WriteInv /\ ProgType /\ StageInv /\ PlaceInv
      /\ rval \in 1..NF \/ Working => flash[0] # FontOk /\ (wpc # "none" => want[0] # FontOk)
      /\ 0 \in Cell
  BY AreaFacts DEF BaseInv, NotOkInv
<1>1. NoResult \notin 1..NF /\ 0 \notin 1..NF /\ 5 \notin 1..NF /\ 16 \notin 1..NF
  BY FontFacts DEF NoResult
<1>2. CASE EraseNext
  <2>1. upc = "erase" /\ rval' = rval /\ UNCHANGED write
    BY <1>2 DEF EraseNext
  <2>2. i \in Nat /\ flash'[0] = IF 0 \in SectorCells(i) THEN FF ELSE flash[0]
    BY <1>0, <1>2, EraseCells
  <2>3. i > 0 => flash'[0] # FontOk
    BY <1>0, <2>1, <2>2, ValueFacts DEF Working
  <2>4. i = 0 => flash'[0] # FontOk
    <3>1. 0 \in SectorCells(0)
      <4>1. SECTOR \in Nat /\ SECTOR > 0
        BY AreaFacts
      <4>. QED
        BY <4>1 DEF SectorCells
    <3>. QED
      BY <2>2, <3>1, ValueFacts
  <2>5. wpc' = "none"
    BY <1>0, <2>1 DEF StageInv, write
  <2>. QED
    BY <2>2, <2>3, <2>4, <2>5 DEF NotOkInv
<1>3. CASE CopyBlock
  <2>1. upc = "read"
    BY <1>3 DEF CopyBlock
  <2>2. flash[0] # FontOk
    BY <1>0, <2>1 DEF Working
  <2> DEFINE a == ftinfo.addr[fx] + offx
  <2>3. PICK old \in {Junk, FF} :
          want'[0] = IF 0 \in Span(a, SECTOR) THEN Block(old)[0 - a + 1] ELSE flash[0]
    BY <1>0, <1>3, CopyCells
  <2>4. 0 \in Span(a, SECTOR) => 0 - a + 1 \in 1..SECTOR
    <3>1. a \in Nat /\ SECTOR \in Nat
      BY <1>0, <2>1, BlockFacts, AreaFacts
    <3> HIDE DEF a
    <3>. QED
      BY <3>1 DEF Span
  <2>5. \A k \in 1..SECTOR : Block(old)[k] # FontOk
    <3> TAKE k \in 1..SECTOR
    <3>1. offx \in Nat /\ card \in Card /\ fx \in Font /\ k \in Nat /\ k > 0
      BY <1>0, AreaFacts DEF ProgType
    <3>2. offx + k - 1 \in Nat
      BY <3>1
    <3>3. Block(old)[k] \in {<<"font", card, fx, offx + k - 1>>, old}
      BY <1>0, <2>1, BlockFacts
    <3>. QED
      BY <3>1, <3>2, <3>3, ValueFacts
  <2>6. want'[0] # FontOk
    BY <2>2, <2>3, <2>4, <2>5
  <2>7. flash' = flash
    BY <1>3, CopyCells
  <2>. QED
    BY <2>2, <2>6, <2>7 DEF NotOkInv
<1>4. CASE FlashBusy
  <2>1. W25QXX_Write /\ UNCHANGED <<upc, ram>>
    BY <1>4 DEF FlashBusy
  <2>2. wpc # "none" /\ want' = want /\ flash'[0] \in {flash[0], FF, want[0]}
    BY <1>0, <2>1, WriteStep
  <2>3. Working' = Working /\ rval' = rval
    BY <2>1 DEF Working, ram
  <2>. QED
    BY <1>0, <2>2, <2>3, ValueFacts DEF NotOkInv
<1>5. CASE LosePower
  <2>1. rval' = rval /\ ~Working' /\ ChipLosesPower
    BY <1>5 DEF LosePower, Working
  <2>2. /\ wpc' = "none" /\ (wpc = "none" => flash' = flash)
        /\ flash'[0] \in {flash[0], want[0]}
    BY <1>0, <2>1, PowerStep
  <2>. QED
    BY <1>0, <2>1, <2>2 DEF NotOkInv
<1>6. CASE SaveInfo \/ InfoSaved
  <2>1. ~Working' /\ rval' \in {rval, 0} /\ rval \in {NoResult}
    BY <1>0, <1>6 DEF SaveInfo, InfoSaved, Working, ram, StageInv
  <2>. QED
    BY <1>1, <2>1 DEF NotOkInv
<1>7. CASE AllErased \/ OpenFont \/ NoTempbuf \/ BlockCopied \/ FileFails
  <2>1. UNCHANGED chip
    BY <1>7, QuietSteps
  <2>2. Working
    <3>1. CASE AllErased
      <4>1. upc = "erase" /\ i = FONTSECSIZE /\ FONTSECSIZE > 0
        BY <3>1, AreaFacts DEF AllErased
      <4>. QED
        BY <4>1 DEF Working
    <3>. QED
      BY <1>7, <3>1 DEF Working, OpenFont, NoTempbuf, BlockCopied, FileFails
  <2>. QED
    BY <1>0, <2>1, <2>2 DEF NotOkInv, chip
<1>8. ASSUME NEW v \in Card, BeginUpdate(v) PROVE NotOkInv'
  <2>1. rval' = NoResult /\ upc' = "erase" /\ ~(i' > 0)
    BY <1>8 DEF BeginUpdate
  <2>. QED
    BY <1>1, <2>1 DEF NotOkInv, Working
<1>9. ASSUME NEW code \in {5, 16}, Refuse(code) PROVE NotOkInv'
  <2>1. rval' = code /\ upc' = "idle"
    BY <1>9 DEF Refuse
  <2>. QED
    BY <1>1, <2>1 DEF NotOkInv, Working
<1>10. CASE font_init
  <2>1. UNCHANGED <<chip, rval>> /\ upc' = "idle"
    BY <1>10 DEF font_init
  <2>. QED
    BY <1>0, <2>1 DEF NotOkInv, Working, chip
<1>11. CASE UNCHANGED vars
  BY <1>0, <1>11 DEF vars, chip, ram, NotOkInv, Working
<1>. QED
  BY <1>2, <1>3, <1>4, <1>5, <1>6, <1>7, <1>8, <1>9, <1>10, <1>11 DEF Next, update_font

LEMMA ErasedStep ==
  ASSUME FontsFit, BaseInv, ErasedInv, [Next]_vars
  PROVE  ErasedInv'
<1>0. ChipType /\ ProgType /\ StageInv /\ WriteInv
  BY DEF BaseInv
<1>1. CASE EraseNext
  <2>1. upc = "erase" /\ i' = i + 1
    BY <1>1 DEF EraseNext
  <2>2. i \in Nat /\ \A c \in Cell : flash'[c] = IF c \in SectorCells(i) THEN FF ELSE flash[c]
    BY <1>0, <1>1, EraseCells
  <2>3. ASSUME NEW c \in Cell, c < (i + 1) * SECTOR PROVE flash'[c] = FF
    <3> DEFINE b == i * SECTOR
    <3>1. SECTOR \in Nat /\ c \in Nat
      BY AreaFacts
    <3>2. b \in Nat /\ (i + 1) * SECTOR = b + SECTOR
      BY <2>2, <3>1
    <3>3. SectorCells(i) = b..(b + SECTOR - 1)
      BY DEF SectorCells
    <3>4. c < b => flash[c] = FF
      BY <2>1 DEF ErasedInv
    <3> HIDE DEF b
    <3>5. c < b \/ c \in SectorCells(i)
      BY <2>3, <3>1, <3>2, <3>3
    <3>. QED
      BY <2>2, <3>4, <3>5
  <2>. QED
    BY <2>1, <2>3 DEF ErasedInv
<1>2. ASSUME NEW v \in Card, BeginUpdate(v) PROVE ErasedInv'
  <2>1. i' = 0
    BY <1>2 DEF BeginUpdate
  <2>2. \A c \in Cell : ~(c < 0 * SECTOR)
    <3>1. SECTOR \in Nat /\ \A c \in Cell : c \in Nat
      BY AreaFacts
    <3>2. 0 * SECTOR = 0
      BY <3>1
    <3>. QED
      BY <3>1, <3>2
  <2>. QED
    BY <2>1, <2>2 DEF ErasedInv
<1>3. CASE FlashBusy
  <2>1. wpc # "none" /\ upc' = upc
    BY <1>0, <1>3, WriteStep DEF FlashBusy
  <2>. QED
    BY <1>0, <2>1 DEF StageInv, ErasedInv
<1>4. CASE \/ font_init \/ AllErased \/ OpenFont \/ NoTempbuf \/ CopyBlock \/ BlockCopied
           \/ SaveInfo \/ InfoSaved \/ FileFails \/ LosePower
           \/ \E code \in {5, 16} : Refuse(code)
  <2>1. upc' # "erase"
    BY <1>4 DEF font_init, AllErased, OpenFont, NoTempbuf, FontDone, CopyBlock, BlockCopied,
                SaveInfo, InfoSaved, FileFails, LosePower, Refuse
  <2>. QED
    BY <2>1 DEF ErasedInv
<1>5. CASE UNCHANGED vars
  BY <1>5 DEF vars, chip, ram, ErasedInv
<1>. QED
  BY <1>1, <1>2, <1>3, <1>4, <1>5 DEF Next, update_font

-----------------------------------------------------------------------------
(* The fonts on their way to the chip.                                     *)

LEMMA SameCells ==
  ASSUME FontsFit, NEW inf \in Info, NEW f \in Font, NEW n \in Nat, n <= inf.size[f],
         NEW V, NEW W, NEW v,
         \A c \in Cell : inf.addr[f] <= c /\ c < inf.addr[f] + n => W[c] = V[c],
         Holds(V, inf.addr[f], n, v, f)
  PROVE  Holds(W, inf.addr[f], n, v, f)
<1> SUFFICES ASSUME NEW k \in 0..(n - 1)
             PROVE  W[inf.addr[f] + k] = <<"font", v, f, k>>
  BY DEF Holds
<1> DEFINE a == inf.addr[f]
           s == inf.size[f]
           N == SECTOR * SECTORS
<1>1. /\ a \in Nat /\ s \in Int /\ a + s <= N /\ N \in Nat /\ Cell = 0..(N - 1)
      /\ n <= s
  BY InfoFacts, AreaFacts
<1>2. V[a + k] = <<"font", v, f, k>>
  BY DEF Holds
<1>3. \A c \in Cell : a <= c /\ c < a + n => W[c] = V[c]
  OBVIOUS
<1> HIDE DEF a, s, N
<1>4. a + k \in Cell /\ a <= a + k /\ a + k < a + n
  <2>1. k \in Nat /\ k < n /\ n <= s
    BY <1>1
  <2>2. a + k \in Nat /\ a + k < N
    BY <1>1, <2>1
  <2>3. a + k \in Cell
    BY <1>1, <2>2
  <2>. QED
    BY <1>1, <2>1, <2>3
<1>5. W[a + k] = <<"font", v, f, k>>
  BY <1>2, <1>3, <1>4
<1>. QED
  BY <1>5 DEF a

\* The fonts are copied to an erased area.
LEMMA CopyBegins ==
  ASSUME FontsFit, BaseInv, ErasedInv, AllErased
  PROVE  CopyInv'
<1>1. /\ upc = "erase" /\ upc' = "open" /\ i = FONTSECSIZE /\ fx' = 0 /\ UNCHANGED chip
      /\ wpc = "none"
  BY DEF AllErased, BaseInv, StageInv
<1>2. flash[0] = FF /\ flash[1] = FF
  <2> DEFINE Z == SECTOR * FONTSECSIZE
  <2>1. FONTSECSIZE * SECTOR = Z /\ Z \in Nat /\ InfoLen < Z /\ 0 \in Cell /\ 1 \in Cell
    BY AreaFacts
  <2>2. \A c \in Cell : c < Z => flash[c] = FF
    BY <1>1, <2>1 DEF ErasedInv
  <2> HIDE DEF Z
  <2>. QED
    BY <2>1, <2>2 DEF InfoLen
<1>3. View' = flash /\ Mark' = InfoLen /\ Reached' = 0
  BY <1>1 DEF View, Mark, Reached, chip
<1>4. \A f \in Font : ~(f < 0)
  BY FontFacts
<1>5. InfoLen <= InfoLen
  BY DEF InfoLen
<1>. QED
  BY <1>1, <1>2, <1>3, <1>4, <1>5 DEF CopyInv

LEMMA CopyOpens ==
  ASSUME FontsFit, BaseInv, CopyInv, OpenFont
  PROVE  CopyInv'
<1>1. /\ upc = "open" /\ upc' = "read" /\ offx' = 0
      /\ UNCHANGED <<chip, card, fx, skipped>>
  BY DEF OpenFont
<1>2. fx \in Font /\ card \in Card /\ ProgType /\ PlaceInv
  BY DEF BaseInv, ProgType
<1>3. /\ ftinfo'.addr[fx] = Mark /\ ftinfo'.size[fx] = FileLen[card][fx]
      /\ \A f \in Font : f # fx => /\ ftinfo'.addr[f] = ftinfo.addr[f]
                                   /\ ftinfo'.size[f] = ftinfo.size[f]
  BY <1>2, OpenedFits
<1>4. View' = View /\ Mark' = Mark /\ Reached' = fx /\ Reached = fx /\ Got' = 0
  BY <1>1, <1>3 DEF View, Mark, Reached, Got, chip
<1> SUFFICES ASSUME ~skipped PROVE CopyInv'
  BY <1>1 DEF CopyInv
<1>5. /\ View[0] = FF /\ View[1] = FF
      /\ \A f \in Font : f < fx => Whole(f)
      /\ InfoLen <= Mark
      /\ \A f \in Font : f < fx => ftinfo.addr[f] + ftinfo.size[f] <= Mark
  BY <1>1, <1>4 DEF CopyInv
<1>6. \A f \in Font : f < fx => f # fx
  BY <1>2, FontFacts
<1>7. \A f \in Font : f < fx => Whole(f)'
  BY <1>1, <1>3, <1>4, <1>5, <1>6 DEF Whole
<1>8. \A f \in Font : f < fx => ftinfo'.addr[f] + ftinfo'.size[f] <= Mark
  BY <1>3, <1>5, <1>6
<1>9. Holds(View, ftinfo'.addr[fx], 0, card, fx)
  BY DEF Holds
<1>. QED
  BY <1>1, <1>3, <1>4, <1>5, <1>7, <1>8, <1>9 DEF CopyInv

\* A block is written behind what is there.
LEMMA CopyWrites ==
  ASSUME FontsFit, BaseInv, CopyInv, CopyBlock
  PROVE  CopyInv'
<1> DEFINE a == ftinfo.addr[fx]
           s == ftinfo.size[fx]
           N == SECTOR * SECTORS
<1>1. upc = "read" /\ upc' = "copy" /\ UNCHANGED ram /\ wpc = "none" /\ wpc' = "check"
  BY CopyCells DEF CopyBlock, BaseInv, StageInv
<1>2. /\ fx \in Font /\ card \in Card /\ ProgType /\ ftinfo \in Info /\ offx \in Nat
      /\ offx <= s /\ PlaceInv /\ upc \in {"read", "copy"}
  BY <1>1 DEF BaseInv, ProgType, PlaceInv
<1>3. PICK old \in {Junk, FF} : \A c \in Cell :
        want'[c] = IF c \in Span(a + offx, SECTOR) THEN Block(old)[c - (a + offx) + 1]
                   ELSE flash[c]
  BY CopyCells
<1>4. /\ a \in Nat /\ s \in Int /\ a + s <= N
      /\ SECTOR \in Nat /\ N \in Nat /\ Cell = 0..(N - 1) /\ 0 \in Cell /\ 1 \in Cell
  BY <1>2, InfoFacts, AreaFacts
<1>5. /\ bread \in Nat /\ bread <= SECTOR /\ offx + bread <= s
      /\ \A k \in 1..SECTOR : Block(old)[k] = IF k <= bread
                                              THEN <<"font", card, fx, offx + k - 1>> ELSE old
  BY <1>2, BlockFacts
<1>6. /\ View' = want' /\ View = flash /\ Mark' = a /\ Mark = a /\ Reached' = fx /\ Reached = fx
      /\ Got = offx
  BY <1>1 DEF View, Mark, Reached, Got, ram
<1>7. Got' = offx + bread
  BY <1>1 DEF Got, ram, bread
<1> SUFFICES ASSUME ~skipped PROVE CopyInv'
  BY <1>1 DEF CopyInv, ram
<1>8. /\ flash[0] = FF /\ flash[1] = FF
      /\ \A f \in Font : f < fx => Whole(f)
      /\ InfoLen <= a
      /\ \A f \in Font : f < fx => ftinfo.addr[f] + ftinfo.size[f] <= a
      /\ s = FileLen[card][fx] /\ Holds(flash, a, offx, card, fx)
  BY <1>1, <1>6 DEF CopyInv
<1> HIDE DEF a, s, N
<1>9. \A c \in Cell : c < a + offx => want'[c] = flash[c]
  <2>1. \A c \in Cell : c < a + offx => c \notin Span(a + offx, SECTOR)
    BY <1>2, <1>4 DEF Span
  <2>. QED
    BY <1>3, <2>1
<1>10. want'[0] = FF /\ want'[1] = FF
  <2>1. 0 < a + offx /\ 1 < a + offx
    BY <1>2, <1>4, <1>8 DEF InfoLen
  <2>. QED
    BY <1>4, <1>8, <1>9, <2>1
<1>11. ASSUME NEW f \in Font, f < fx PROVE Whole(f)'
  <2>1. Whole(f) /\ ftinfo.addr[f] + ftinfo.size[f] <= a
    BY <1>8, <1>11
  <2>2. ftinfo.addr[f] \in Nat /\ ftinfo.size[f] \in Nat
    BY <1>2, <2>1, InfoFacts, FontFacts DEF Whole
  <2>3. \A c \in Cell : ftinfo.addr[f] <= c /\ c < ftinfo.addr[f] + ftinfo.size[f] =>
                          want'[c] = flash[c]
    <3>1. \A c \in Cell : c < ftinfo.addr[f] + ftinfo.size[f] => c < a + offx
      BY <1>2, <1>4, <2>1, <2>2
    <3>. QED
      BY <1>9, <3>1
  <2>4. Holds(flash, ftinfo.addr[f], ftinfo.size[f], card, f)
    BY <1>6, <2>1 DEF Whole
  <2>5. ftinfo.size[f] <= ftinfo.size[f]
    BY <2>2
  <2>6. Holds(want', ftinfo.addr[f], ftinfo.size[f], card, f)
    BY <1>2, <2>2, <2>3, <2>4, <2>5, SameCells
  <2>. QED
    BY <1>1, <1>6, <2>1, <2>6 DEF Whole, ram
<1>12. Holds(want', a, offx + bread, card, fx)
  <2> SUFFICES ASSUME NEW k \in 0..((offx + bread) - 1)
               PROVE  want'[a + k] = <<"font", card, fx, k>>
    BY DEF Holds
  <2>1. a + k \in Cell /\ k \in Nat
    BY <1>2, <1>4, <1>5
  <2>2. CASE k < offx
    <3>1. a + k < a + offx /\ k \in 0..(offx - 1)
      BY <1>2, <1>4, <2>1, <2>2
    <3>. QED
      BY <1>8, <1>9, <2>1, <3>1 DEF Holds
  <2>3. CASE ~(k < offx)
    <3> DEFINE j == (a + k) - (a + offx) + 1
    <3>1. a + k \in Span(a + offx, SECTOR) /\ j \in 1..SECTOR /\ j <= bread /\ offx + j - 1 = k
      BY <1>2, <1>4, <1>5, <2>1, <2>3 DEF Span
    <3>2. want'[a + k] = Block(old)[j]
      BY <1>3, <2>1, <3>1 DEF a
    <3> HIDE DEF j
    <3>3. Block(old)[j] = <<"font", card, fx, offx + j - 1>>
      BY <1>5, <3>1
    <3>. QED
      BY <3>1, <3>2, <3>3
  <2>. QED
    BY <2>2, <2>3
<1>. QED
  BY <1>1, <1>6, <1>7, <1>8, <1>10, <1>11, <1>12 DEF CopyInv, ram, a, s

\* A block is done, and perhaps the font.
LEMMA CopyAdvances ==
  ASSUME FontsFit, BaseInv, CopyInv, BlockCopied
  PROVE  CopyInv'
<1> DEFINE a == ftinfo.addr[fx]
           s == ftinfo.size[fx]
<1>1. /\ upc = "copy" /\ wpc = "none" /\ offx' = offx + bread
      /\ UNCHANGED <<chip, card, ftinfo, skipped>>
      /\ IF bread = SECTOR THEN upc' = "read" /\ fx' = fx ELSE FontDone
  BY DEF BlockCopied
<1>2. /\ fx \in Font /\ card \in Card /\ ProgType /\ ftinfo \in Info /\ offx \in Nat
      /\ offx <= s /\ PlaceInv /\ upc \in {"read", "copy"}
  BY <1>1 DEF BaseInv, ProgType, PlaceInv
<1>3. bread = SECTOR \/ offx + bread = s
  BY <1>2, BlockFacts
<1>4. View' = View /\ Mark = a /\ Reached = fx /\ Got = offx + bread
  BY <1>1 DEF View, Mark, Reached, Got, chip
<1> SUFFICES ASSUME ~skipped PROVE CopyInv'
  BY <1>1 DEF CopyInv
<1>5. /\ View[0] = FF /\ View[1] = FF
      /\ \A f \in Font : f < fx => Whole(f)
      /\ InfoLen <= a
      /\ \A f \in Font : f < fx => ftinfo.addr[f] + ftinfo.size[f] <= a
      /\ s = FileLen[card][fx] /\ Holds(View, a, offx + bread, card, fx)
  BY <1>1, <1>4 DEF CopyInv
<1>6. CASE bread = SECTOR
  <2>1. upc' = "read" /\ fx' = fx
    BY <1>1, <1>6
  <2>2. Mark' = a /\ Reached' = fx /\ Got' = offx + bread
    BY <1>1, <2>1 DEF Mark, Reached, Got
  <2>3. \A f \in Font : f < fx => Whole(f)'
    BY <1>1, <1>4, <1>5 DEF Whole
  <2>. QED
    BY <1>1, <1>4, <1>5, <2>1, <2>2, <2>3 DEF CopyInv
<1>7. CASE bread # SECTOR
  <2>1. FontDone /\ offx + bread = s
    BY <1>1, <1>3, <1>7
  <2>2. Whole(fx)
    BY <1>4, <1>5, <2>1 DEF Whole
  <2>3. \A f \in Font : f < fx \/ f = fx => Whole(f)'
    BY <1>1, <1>4, <1>5, <2>2 DEF Whole
  <2>4. a \in Nat /\ s \in Nat /\ NF \in Nat /\ Font = 0..(NF - 1)
    BY <1>2, <1>5, InfoFacts, FontFacts
  <2>5. CASE fx = NF - 1
    <3>1. upc' = "save" /\ fx' = fx
      BY <2>1, <2>5 DEF FontDone
    <3>2. Reached' = NF
      BY <3>1 DEF Reached
    <3>3. \A f \in Font : f < NF => f < fx \/ f = fx
      BY <2>4, <2>5
    <3>. QED
      BY <1>1, <1>4, <1>5, <2>3, <3>1, <3>2, <3>3 DEF CopyInv
  <2>6. CASE fx # NF - 1
    <3>1. upc' = "open" /\ fx' = fx + 1
      BY <2>1, <2>6 DEF FontDone
    <3>2. fx + 1 # 0 /\ (fx + 1) - 1 = fx
      BY <1>2, <2>4
    <3>3. Mark' = a + s /\ Reached' = fx + 1
      BY <1>1, <3>1, <3>2 DEF Mark, Reached
    <3>4. \A f \in Font : f < fx + 1 => f < fx \/ f = fx
      BY <1>2, <2>4
    <3>5. InfoLen <= a + s
      <4> HIDE DEF a, s
      <4>. QED
        BY <1>5, <2>4 DEF InfoLen
    <3>6. \A f \in Font : f < fx + 1 => ftinfo.addr[f] + ftinfo.size[f] <= a + s
      <4> TAKE f \in Font
      <4>1. CASE f < fx
        <5>1. ftinfo.addr[f] \in Nat /\ ftinfo.size[f] \in Int
          BY <1>2, InfoFacts
        <5>2. ftinfo.addr[f] + ftinfo.size[f] <= a
          BY <1>5, <4>1
        <5> HIDE DEF a, s
        <5>. QED
          BY <2>4, <5>1, <5>2
      <4>2. CASE f = fx
        BY <2>4, <4>2
      <4>. QED
        BY <3>4, <4>1, <4>2
    <3>. QED
      BY <1>1, <1>4, <1>5, <2>3, <3>1, <3>3, <3>4, <3>5, <3>6 DEF CopyInv
  <2>. QED
    BY <2>5, <2>6
<1>. QED
  BY <1>6, <1>7

\* ftinfo goes below the fonts.
LEMMA CopySaves ==
  ASSUME FontsFit, BaseInv, CopyInv, SaveInfo
  PROVE  CopyInv'
<1>1. upc = "save" /\ upc' = "saving" /\ UNCHANGED ram /\ wpc = "none" /\ wpc' = "check"
  BY SaveCells DEF SaveInfo, BaseInv, StageInv
<1>2. ftinfo \in Info
  BY DEF BaseInv, ProgType
<1>3. View = flash /\ View' = want' /\ Reached = NF /\ Reached' = NF
  BY <1>1 DEF View, Reached
<1>4. \A c \in Cell : c >= InfoLen => want'[c] = flash[c]
  BY SaveCells
<1> SUFFICES ASSUME ~skipped PROVE CopyInv'
  BY <1>1 DEF CopyInv, ram
<1>5. \A f \in Font : f < NF => Whole(f)
  BY <1>1, <1>3 DEF CopyInv
<1>6. ASSUME NEW f \in Font, f < NF PROVE Whole(f)'
  <2>1. /\ InfoLen <= ftinfo.addr[f] /\ ftinfo.size[f] = FileLen[card][f]
        /\ Holds(flash, ftinfo.addr[f], ftinfo.size[f], card, f)
    BY <1>3, <1>5, <1>6 DEF Whole
  <2>2. ftinfo.addr[f] \in Nat /\ ftinfo.size[f] \in Nat /\ ftinfo.size[f] <= ftinfo.size[f]
    <3>1. card \in Card
      BY DEF BaseInv, ProgType
    <3>. QED
      BY <1>2, <2>1, <3>1, InfoFacts, FontFacts
  <2>3. \A c \in Cell : ftinfo.addr[f] <= c => c >= InfoLen
    <3>1. \A c \in Cell : c \in Nat
      BY AreaFacts
    <3>. QED
      BY <2>1, <2>2, <3>1 DEF InfoLen
  <2>4. Holds(want', ftinfo.addr[f], ftinfo.size[f], card, f)
    BY <1>2, <1>4, <2>1, <2>2, <2>3, SameCells
  <2>. QED
    BY <1>1, <1>3, <2>1, <2>4 DEF Whole, ram
<1>. QED
  BY <1>1, <1>3, <1>6 DEF CopyInv

LEMMA CopyStep ==
  ASSUME FontsFit, BaseInv, ErasedInv, CopyInv, [Next]_vars
  PROVE  CopyInv'
<1>0. ChipType /\ WriteInv /\ StageInv
  BY DEF BaseInv
<1>1. CASE FlashBusy
  <2>1. W25QXX_Write /\ UNCHANGED <<upc, ram>>
    BY <1>1 DEF FlashBusy
  <2>2. wpc # "none" /\ want' = want /\ (wpc' = "none" => flash' = want')
    BY <1>0, <2>1, WriteStep
  <2>3. View' = View /\ Mark' = Mark /\ Reached' = Reached /\ Got' = Got
    BY <2>1, <2>2 DEF View, Mark, Reached, Got, bread, ram
  <2>. QED
    BY <2>1, <2>3 DEF CopyInv, Whole, ram
<1>2. CASE NoTempbuf
  BY <1>2 DEF NoTempbuf, CopyInv
<1>3. CASE UNCHANGED vars
  BY <1>3 DEF vars, chip, ram, CopyInv, Whole, View, Mark, Reached, Got, bread
<1>4. CASE \/ font_init \/ EraseNext \/ InfoSaved \/ FileFails \/ LosePower
           \/ \E v \in Card : BeginUpdate(v)
           \/ \E code \in {5, 16} : Refuse(code)
  <2>1. upc' \in {"off", "idle", "erase"}
    BY <1>4 DEF font_init, EraseNext, InfoSaved, FileFails, LosePower, BeginUpdate, Refuse
  <2>. QED
    BY <2>1 DEF CopyInv
<1>. QED
  BY <1>1, <1>2, <1>3, <1>4, CopyBegins, CopyOpens, CopyWrites, CopyAdvances, CopySaves
     DEF Next, update_font

LEMMA SaveStep ==
  ASSUME FontsFit, BaseInv, CopyInv, SaveInv, [Next]_vars
  PROVE  SaveInv'
<1>0. ChipType /\ WriteInv /\ StageInv
  BY DEF BaseInv
<1>1. CASE SaveInfo
  <2>1. upc = "save" /\ upc' = "saving" /\ UNCHANGED ram /\ wpc = "none"
    BY <1>0, <1>1 DEF SaveInfo, StageInv
  <2> SUFFICES ASSUME ~skipped PROVE SaveInv'
    BY <2>1 DEF SaveInv, ram
  <2>2. /\ flash[0] = FF /\ flash[1] = FF
    BY <2>1 DEF CopyInv, View
  <2>3. /\ wpc' = "check" /\ flash' = flash /\ waddr' = 0
        /\ wdata' = <<FontOk, InfoCell(ftinfo)>>
        /\ want'[0] = FontOk /\ want'[1] = InfoCell(ftinfo)
        /\ \A c \in Cell : c >= InfoLen => want'[c] = flash[c]
    BY <1>1, SaveCells
  <2>4. Len(wdata') = 2
    BY <2>3
  <2>5. Span(0, 2) = {0, 1}
    BY DEF Span
  <2>6. Fresh(InfoLen)'
    BY <2>2, <2>3, <2>4, <2>5 DEF Fresh, InfoLen
  <2>7. InfoCell(ftinfo)' = InfoCell(ftinfo)
    BY <2>1 DEF ram, InfoCell
  <2>8. want'[1] = InfoCell(ftinfo)'
    BY <2>3, <2>7
  <2>. QED
    BY <2>2, <2>3, <2>6, <2>8 DEF SaveInv
<1>2. CASE FlashBusy
  <2>1. W25QXX_Write /\ UNCHANGED <<upc, ram>>
    BY <1>2 DEF FlashBusy
  <2>2. want' = want
    BY <1>0, <2>1, WriteStep
  <2> SUFFICES ASSUME ~skipped, upc = "saving" PROVE SaveInv'
    BY <2>1 DEF SaveInv, ram
  <2>3. /\ want[0] = FontOk /\ want[1] = InfoCell(ftinfo) /\ flash[1] \in {FF, want[1]}
        /\ \A c \in Cell : c >= InfoLen => flash[c] = want[c]
        /\ Fresh(InfoLen)
    BY DEF SaveInv
  <2>4. InfoLen \in Nat
    BY DEF InfoLen
  <2>5. Fresh(InfoLen)' /\ \A c \in Cell : flash'[c] \in {flash[c], want[c]}
    BY <1>0, <2>1, <2>3, <2>4, FreshStep, FreshKeeps DEF InfoLen
  <2>6. 1 \in Cell
    BY AreaFacts
  <2>7. InfoCell(ftinfo)' = InfoCell(ftinfo)
    BY <2>1 DEF ram, InfoCell
  <2>. QED
    BY <2>2, <2>3, <2>5, <2>6, <2>7 DEF SaveInv
<1>3. CASE \/ font_init \/ EraseNext \/ AllErased \/ OpenFont \/ NoTempbuf \/ CopyBlock
           \/ BlockCopied \/ InfoSaved \/ FileFails \/ LosePower
           \/ \E v \in Card : BeginUpdate(v)
           \/ \E code \in {5, 16} : Refuse(code)
  <2>1. upc' # "saving"
    BY <1>3 DEF font_init, EraseNext, AllErased, OpenFont, NoTempbuf, FontDone, CopyBlock,
                BlockCopied, InfoSaved, FileFails, LosePower, BeginUpdate, Refuse
  <2>. QED
    BY <2>1 DEF SaveInv
<1>4. CASE UNCHANGED vars
  BY <1>4 DEF vars, chip, ram, SaveInv, Fresh, Later, Remain, InfoCell
<1>. QED
  BY <1>1, <1>2, <1>3, <1>4 DEF Next, update_font

-----------------------------------------------------------------------------
(* The library.                                                            *)

\* While ftinfo is saved, whatever of its two cells is in the chip.
LEMMA FontsAreThere ==
  ASSUME FontsFit, BaseInv, CopyInv, upc = "saving", ~skipped,
         NEW V, \A c \in Cell : c >= InfoLen => V[c] = want[c]
  PROVE  \A f \in Font : /\ ftinfo.size[f] = FileLen[card][f]
                         /\ Holds(V, ftinfo.addr[f], ftinfo.size[f], card, f)
<1> TAKE f \in Font
<1>1. ftinfo \in Info /\ View = want
  BY DEF BaseInv, ProgType, StageInv, View
<1>2. f < NF
  BY FontFacts
<1>3. /\ InfoLen <= ftinfo.addr[f] /\ ftinfo.size[f] = FileLen[card][f]
      /\ Holds(want, ftinfo.addr[f], ftinfo.size[f], card, f)
  BY <1>1, <1>2 DEF CopyInv, Reached, Whole
<1>4. ftinfo.addr[f] \in Nat /\ ftinfo.size[f] \in Nat /\ ftinfo.size[f] <= ftinfo.size[f]
  <2>1. card \in Card
    BY DEF BaseInv, ProgType
  <2>. QED
    BY <1>1, <1>3, <2>1, InfoFacts, FontFacts
<1>5. \A c \in Cell : ftinfo.addr[f] <= c => c >= InfoLen
  <2>1. \A c \in Cell : c \in Nat
    BY AreaFacts
  <2>. QED
    BY <1>3, <1>4, <2>1 DEF InfoLen
<1>6. Holds(V, ftinfo.addr[f], ftinfo.size[f], card, f)
  BY <1>1, <1>3, <1>4, <1>5, SameCells
<1>. QED
  BY <1>3, <1>6

LEMMA LibraryStep ==
  ASSUME FontsFit, BaseInv, NotOkInv, CopyInv, SaveInv, FontsMatchInfo, [Next]_vars
  PROVE  FontsMatchInfo'
<1>0. ChipType /\ WriteInv /\ StageInv /\ ProgType /\ 0 \in Cell /\ 1 \in Cell
  BY AreaFacts DEF BaseInv
<1>1. ASSUME UNCHANGED flash, skipped' = skipped \/ skipped' PROVE FontsMatchInfo'
  BY <1>1 DEF FontsMatchInfo, Usable, Complete
<1>2. ASSUME flash'[0] # FontOk PROVE FontsMatchInfo'
  BY <1>2 DEF FontsMatchInfo, Usable
<1>3. ASSUME upc = "saving", ~skipped, flash'[1] \in {flash[1], want[1]},
             \A c \in Cell : c >= InfoLen => flash'[c] = want[c]
      PROVE  FontsMatchInfo'
  <2> SUFFICES ASSUME flash'[1] # FF PROVE Complete(flash[1][2], flash[1][3])'
    BY DEF FontsMatchInfo
  <2>1. flash'[1] = InfoCell(ftinfo)
    BY <1>3 DEF SaveInv
  <2>2. flash'[1][2] = ftinfo.addr /\ flash'[1][3] = ftinfo.size
    BY <2>1 DEF InfoCell
  <2>3. card \in Card
    BY <1>0 DEF ProgType
  <2>4. \A f \in Font : /\ ftinfo.size[f] = FileLen[card][f]
                        /\ Holds(flash', ftinfo.addr[f], ftinfo.size[f], card, f)
    BY <1>3, FontsAreThere
  <2>. QED
    BY <2>2, <2>3, <2>4 DEF Complete, Holds
<1>4. CASE \/ font_init \/ AllErased \/ OpenFont \/ NoTempbuf \/ BlockCopied \/ InfoSaved
           \/ FileFails \/ UNCHANGED vars
           \/ \E v \in Card : BeginUpdate(v)
           \/ \E code \in {5, 16} : Refuse(code)
  <2>1. UNCHANGED flash
    BY <1>4, QuietSteps DEF chip
  <2>2. skipped' = skipped \/ skipped'
    BY <1>4 DEF font_init, AllErased, OpenFont, NoTempbuf, BlockCopied, InfoSaved, FileFails,
                BeginUpdate, Refuse, vars, ram
  <2>. QED
    BY <1>1, <2>1, <2>2
<1>5. CASE CopyBlock
  <2>1. flash' = flash /\ skipped' = skipped
    BY <1>5, CopyCells DEF CopyBlock, ram
  <2>. QED
    BY <1>1, <2>1
<1>6. CASE SaveInfo
  <2>1. flash' = flash /\ skipped' = skipped
    BY <1>6, SaveCells DEF SaveInfo, ram
  <2>. QED
    BY <1>1, <2>1
<1>7. CASE EraseNext
  <2>1. upc = "erase" /\ i \in Nat
        /\ flash'[0] = IF 0 \in SectorCells(i) THEN FF ELSE flash[0]
    BY <1>0, <1>7, EraseCells DEF EraseNext
  <2>2. i = 0 => 0 \in SectorCells(i)
    <3>1. SECTOR \in Nat /\ SECTOR > 0
      BY AreaFacts
    <3>2. 0 \in SectorCells(0)
      BY <3>1 DEF SectorCells
    <3>. QED
      BY <3>2
  <2>3. i > 0 => flash[0] # FontOk
    BY <2>1 DEF NotOkInv, Working
  <2>4. flash'[0] # FontOk
    BY <2>1, <2>2, <2>3, ValueFacts
  <2>. QED
    BY <1>2, <2>4
<1>8. CASE FlashBusy
  <2>1. W25QXX_Write /\ UNCHANGED <<upc, ram>>
    BY <1>8 DEF FlashBusy
  <2>2. wpc # "none" /\ want' = want /\ flash'[0] \in {flash[0], FF, want[0]}
    BY <1>0, <2>1, WriteStep
  <2>3. CASE upc = "copy"
    <3>1. flash[0] # FontOk /\ want[0] # FontOk
      BY <2>2, <2>3 DEF NotOkInv, Working
    <3>. QED
      BY <1>2, <2>2, <3>1, ValueFacts
  <2>4. CASE upc = "saving" /\ ~skipped
    <3>1. Fresh(InfoLen) /\ InfoLen \in Nat /\ \A c \in Cell : c >= InfoLen => flash[c] = want[c]
      BY <2>4 DEF SaveInv, InfoLen
    <3>2. \A c \in Cell : flash'[c] \in {flash[c], want[c]}
      BY <1>0, <2>1, <3>1, FreshKeeps DEF InfoLen
    <3>. QED
      BY <1>0, <1>3, <2>4, <3>1, <3>2
  <2>5. CASE skipped
    BY <2>1, <2>5 DEF FontsMatchInfo, ram
  <2>6. upc \in {"copy", "saving"}
    BY <1>0, <2>2 DEF StageInv
  <2>. QED
    BY <2>3, <2>4, <2>5, <2>6
<1>9. CASE LosePower
  <2>1. ChipLosesPower /\ skipped' = skipped
    BY <1>9 DEF LosePower
  <2>2. (wpc = "none" => flash' = flash) /\ \A c \in Cell : flash'[c] \in {flash[c], want[c]}
    BY <1>0, <2>1, PowerStep
  <2>3. CASE wpc = "none"
    BY <1>1, <2>1, <2>2, <2>3
  <2>4. CASE wpc # "none" /\ upc = "copy"
    <3>1. flash[0] # FontOk /\ want[0] # FontOk
      BY <2>4 DEF NotOkInv, Working
    <3>. QED
      BY <1>0, <1>2, <2>2, <3>1
  <2>5. CASE upc = "saving" /\ ~skipped
    <3>1. \A c \in Cell : c >= InfoLen => flash[c] = want[c]
      BY <2>5 DEF SaveInv
    <3>. QED
      BY <1>0, <1>3, <2>2, <2>5, <3>1
  <2>6. CASE skipped
    BY <2>1, <2>6 DEF FontsMatchInfo
  <2>7. wpc # "none" => upc \in {"copy", "saving"}
    BY <1>0 DEF StageInv
  <2>. QED
    BY <2>3, <2>4, <2>5, <2>6, <2>7
<1>. QED
  BY <1>4, <1>5, <1>6, <1>7, <1>8, <1>9 DEF Next, update_font

\* What an update that returned 0 has saved stays until the next update begins.
LEMMA UpdatedStep ==
  ASSUME FontsFit, BaseInv, SaveInv, UpdatedInv, [Next]_vars
  PROVE  UpdatedInv'
<1>0. ChipType /\ WriteInv /\ StageInv /\ ProgType
  BY DEF BaseInv
<1>1. ASSUME UNCHANGED <<flash, rval, skipped>> PROVE UpdatedInv'
  BY <1>1 DEF UpdatedInv, Usable
<1>2. CASE InfoSaved
  <2>1. upc = "saving" /\ wpc = "none" /\ UNCHANGED <<chip, skipped>>
    BY <1>2 DEF InfoSaved
  <2>2. flash = want
    BY <1>0, <2>1 DEF StageInv
  <2> SUFFICES ASSUME ~skipped PROVE Usable' /\ flash'[1] # FF
    BY <2>1 DEF UpdatedInv
  <2>3. flash[0] = FontOk /\ flash[1] = InfoCell(ftinfo) /\ ftinfo \in Info
    BY <1>0, <2>1, <2>2 DEF SaveInv, ProgType
  <2>4. flash' = flash
    BY <2>1 DEF chip
  <2>. QED
    BY <2>3, <2>4, ValueFacts DEF Usable
<1>3. CASE font_init
  BY <1>1, <1>3 DEF font_init, chip
<1>4. CASE \/ EraseNext \/ AllErased \/ OpenFont \/ NoTempbuf \/ CopyBlock \/ BlockCopied
           \/ SaveInfo
  <2>1. upc \notin {"off", "idle"} /\ rval' = rval
    BY <1>4 DEF EraseNext, AllErased, OpenFont, NoTempbuf, CopyBlock, BlockCopied, SaveInfo, ram
  <2>2. rval' # 0
    BY <1>0, <2>1 DEF StageInv, NoResult
  <2>. QED
    BY <2>2 DEF UpdatedInv
<1>5. CASE FlashBusy
  <2>1. W25QXX_Write /\ rval' = rval
    BY <1>5 DEF FlashBusy, ram
  <2>2. wpc # "none"
    BY <1>0, <2>1, WriteStep
  <2>3. rval' # 0
    BY <1>0, <2>1, <2>2 DEF StageInv, NoResult
  <2>. QED
    BY <2>3 DEF UpdatedInv
<1>6. CASE FileFails
  <2>1. rval' = fx + 1 /\ fx \in Nat
    BY <1>0, <1>6, FontFacts DEF FileFails, ProgType
  <2>2. rval' # 0
    BY <2>1
  <2>. QED
    BY <2>2 DEF UpdatedInv
<1>7. CASE LosePower
  <2>1. ChipLosesPower /\ UNCHANGED <<rval, skipped>>
    BY <1>7 DEF LosePower
  <2>2. CASE upc \in {"off", "idle"}
    <3>1. wpc = "none"
      BY <1>0, <2>2 DEF StageInv
    <3>2. flash' = flash
      BY <1>0, <2>1, <3>1, PowerStep
    <3>. QED
      BY <1>1, <2>1, <3>2
  <2>3. CASE upc \notin {"off", "idle"}
    BY <1>0, <2>1, <2>3 DEF StageInv, NoResult, UpdatedInv
  <2>. QED
    BY <2>2, <2>3
<1>8. ASSUME NEW v \in Card, BeginUpdate(v) PROVE UpdatedInv'
  <2>1. rval' = NoResult
    BY <1>8 DEF BeginUpdate
  <2>. QED
    BY <2>1 DEF UpdatedInv, NoResult
<1>9. ASSUME NEW code \in {5, 16}, Refuse(code) PROVE UpdatedInv'
  <2>1. rval' = code
    BY <1>9 DEF Refuse
  <2>. QED
    BY <2>1 DEF UpdatedInv
<1>10. CASE UNCHANGED vars
  BY <1>1, <1>10 DEF vars, chip, ram
<1>. QED
  BY <1>2, <1>3, <1>4, <1>5, <1>6, <1>7, <1>8, <1>9, <1>10 DEF Next, update_font

-----------------------------------------------------------------------------
(* What is outside the area.                                               *)

\* The cells of a sector of the area.
LEMMA SectorInside ==
  ASSUME FontsFit, NEW s \in Nat, s < FONTSECSIZE
  PROVE  \A c \in SectorCells(s) : c \in Area
<1> DEFINE b == s * SECTOR
           Z == SECTOR * FONTSECSIZE
<1>1. /\ SECTOR \in Nat \ {0} /\ FONTSECSIZE \in Nat /\ Z \in Nat /\ Area = 0..(Z - 1)
  BY AreaFacts
<1>2. b \in Nat /\ b + SECTOR <= Z
  <2>1. s + 1 <= FONTSECSIZE
    BY <1>1
  <2>2. (s + 1) * SECTOR <= SECTOR * FONTSECSIZE
    BY <1>1, <2>1
  <2>3. (s + 1) * SECTOR = s * SECTOR + SECTOR /\ s * SECTOR \in Nat
    BY <1>1
  <2>. QED
    BY <2>2, <2>3
<1>3. SectorCells(s) = b..((b + SECTOR) - 1)
  BY <1>1, <1>2 DEF SectorCells
<1> HIDE DEF b, Z
<1>. QED
  BY <1>1, <1>2, <1>3

\* A write that ends in the area erases sectors of the area only.
LEMMA WriteInside ==
  ASSUME FontsFit, ChipType, WriteInv, W25QXX_Write,
         waddr + Len(wdata) <= SECTOR * FONTSECSIZE
  PROVE  /\ wpc' # "none" => waddr' + Len(wdata') <= SECTOR * FONTSECSIZE
         /\ \A c \in Cell \ Area : flash'[c] \in {flash[c], want[c]}
<1> DEFINE n == Len(wdata)
           Z == SECTOR * FONTSECSIZE
<1>0. /\ waddr \in Nat /\ waddr + n <= Z /\ Z \in Nat /\ Area = 0..(Z - 1)
      /\ SECTOR \in Nat \ {0} /\ FONTSECSIZE \in Nat /\ \A c \in Cell : c \in Nat
  BY AreaFacts DEF ChipType
<1>1. CASE CheckSector
  <2>1. UNCHANGED <<flash, waddr, wdata>>
    BY <1>1 DEF CheckSector
  <2>. QED
    BY <1>0, <2>1
<1>2. CASE EraseForWrite
  <2>1. wpc = "erase" /\ flash' = Erased(Sec) /\ UNCHANGED <<waddr, wdata>>
    BY <1>2 DEF EraseForWrite
  <2>2. n \in Nat /\ Remain \in 1..n /\ Sec * SECTOR \in Nat /\ Sec * SECTOR <= waddr
    BY <2>1, PieceFacts
  <2>3. Sec \in Nat
    BY <1>0, DivModFacts DEF Sec
  <2>4. Sec * SECTOR < Z
    <3> DEFINE b == Sec * SECTOR
    <3> HIDE DEF n, Z, b
    <3>1. b < Z
      BY <1>0, <2>2 DEF b
    <3>. QED
      BY <3>1 DEF b
  <2>5. Sec < FONTSECSIZE
    <3>1. SUFFICES ASSUME Sec >= FONTSECSIZE PROVE FALSE
      BY <1>0, <2>3
    <3> DEFINE s == Sec
    <3> HIDE DEF s, n
    <3>2. s \in Nat /\ s >= FONTSECSIZE
      BY <2>3, <3>1 DEF s
    <3>3. s * SECTOR >= SECTOR * FONTSECSIZE
      BY <1>0, <3>2
    <3> DEFINE b == s * SECTOR
    <3>4. b \in Nat /\ b < Z /\ b >= Z
      BY <2>2, <2>4, <3>3 DEF s
    <3> HIDE DEF b, Z
    <3>. QED
      BY <1>0, <3>4
  <2>6. \A c \in SectorCells(Sec) : c \in Area
    BY <1>0, <2>3, <2>5, SectorInside
  <2>7. \A c \in Cell \ Area : flash'[c] = flash[c]
    BY <2>1, <2>6 DEF Erased
  <2>. QED
    BY <1>0, <2>1, <2>7
<1>3. CASE W25QXX_Write_Page
  <2>1. \A c \in Cell : flash'[c] \in {flash[c], want[c]}
    BY <1>3, PageStep
  <2>2. /\ wpc = "program"
        /\ SectorDone \/ UNCHANGED <<wpc, waddr, wdata>>
    BY <1>3 DEF W25QXX_Write_Page
  <2>3. n \in Nat /\ Remain \in 1..n /\ wdata \in Seq(Value)
    BY <2>2, PieceFacts DEF ChipType
  <2>4. Len(SubSeq(wdata, Remain + 1, n)) = n - Remain
    <3>1. Remain \in 0..Len(wdata)
      BY <2>3
    <3>. QED
      BY <2>3, <3>1, Parts
  <2>5. CASE UNCHANGED <<wpc, waddr, wdata>>
    BY <1>0, <2>1, <2>5
  <2>6. CASE SectorDone
    <3>1. CASE wpc' = "none"
      BY <2>1, <3>1
    <3>2. CASE wpc' # "none"
      <4>1. waddr' = waddr + Remain /\ wdata' = SubSeq(wdata, Remain + 1, n)
        BY <2>6, <3>2 DEF SectorDone
      <4>2. Len(wdata') = n - Remain
        BY <2>4, <4>1
      <4> HIDE DEF n, Z
      <4>3. waddr' + Len(wdata') <= Z
        BY <1>0, <2>3, <4>1, <4>2
      <4>. QED
        BY <2>1, <4>3 DEF Z
    <3>. QED
      BY <3>1, <3>2
  <2>. QED
    BY <2>2, <2>5, <2>6
<1>. QED
  BY <1>1, <1>2, <1>3 DEF W25QXX_Write

LEMMA OutsideStep ==
  ASSUME FontsFit, BaseInv, OutsideInv, [Next]_vars
  PROVE  OutsideInv'
<1> DEFINE Z == SECTOR * FONTSECSIZE
<1>0. /\ ChipType /\ WriteInv /\ ProgType /\ StageInv /\ PlaceInv
      /\ Z \in Nat /\ InfoLen < Z /\ Area = 0..(Z - 1) /\ \A c \in Cell : c \in Nat
  BY AreaFacts DEF BaseInv
<1>1. CASE NoTempbuf
  <2>1. skipped'
    BY <1>1 DEF NoTempbuf
  <2>. QED
    BY <2>1 DEF OutsideInv
<1>2. ASSUME UNCHANGED chip, skipped' = skipped PROVE OutsideInv'
  BY <1>2 DEF OutsideInv, chip
<1>3. CASE \/ font_init \/ AllErased \/ OpenFont \/ BlockCopied \/ InfoSaved \/ FileFails
           \/ UNCHANGED vars
           \/ \E v \in Card : BeginUpdate(v)
           \/ \E code \in {5, 16} : Refuse(code)
  <2>1. UNCHANGED chip
    BY <1>3, QuietSteps
  <2>2. skipped' = skipped
    BY <1>3 DEF font_init, AllErased, OpenFont, BlockCopied, InfoSaved, FileFails,
                BeginUpdate, Refuse, vars, ram
  <2>. QED
    BY <1>2, <2>1, <2>2
<1>4. CASE EraseNext
  <2>1. /\ i \in Nat /\ i < FONTSECSIZE /\ wpc' = wpc /\ skipped' = skipped
        /\ \A c \in Cell : flash'[c] = IF c \in SectorCells(i) THEN FF ELSE flash[c]
    BY <1>0, <1>4, EraseCells DEF EraseNext, write
  <2>2. \A c \in SectorCells(i) : c \in Area
    BY <2>1, SectorInside
  <2>3. wpc = "none"
    BY <1>0, <1>4 DEF EraseNext, StageInv
  <2>. QED
    BY <2>1, <2>2, <2>3 DEF OutsideInv
<1>5. CASE CopyBlock
  <2> DEFINE a == ftinfo.addr[fx] + offx
  <2> SUFFICES ASSUME ~skipped PROVE OutsideInv'
    BY <1>5 DEF OutsideInv, CopyBlock, ram
  <2>1. PICK old \in {Junk, FF} : BeginWrite(a, Block(old))
    BY <1>5 DEF CopyBlock, Block
  <2>2. upc \in {"read", "copy"}
    BY <1>5 DEF CopyBlock
  <2>3. /\ Block(old) \in Seq(Value) /\ Len(Block(old)) = SECTOR /\ Block(old) # <<>>
        /\ a \in Nat /\ a + SECTOR <= SECTOR * SECTORS /\ a + SECTOR <= Z
    BY <1>0, <2>2, BlockFacts
  <2> DEFINE data == Block(old)
  <2> HIDE DEF data, a
  <2>4. data \in Seq(Value) /\ data # <<>> /\ a \in Nat /\ a + Len(data) <= SECTOR * SECTORS
        /\ BeginWrite(a, data) /\ Len(data) = SECTOR
    BY <2>1, <2>3 DEF data
  <2>5. /\ flash' = flash /\ waddr' = a /\ wdata' = data
        /\ \A c \in Cell : want'[c] = IF c \in Span(a, Len(data)) THEN data[c - a + 1]
                                      ELSE flash[c]
    BY <1>0, <2>4, BeginWriteStep
  <2>6. SECTOR \in Nat
    BY AreaFacts
  <2>7. \A c \in Cell \ Area : c \notin Span(a, SECTOR)
    <3> HIDE DEF Z
    <3>. QED
      BY <1>0, <2>3, <2>6 DEF Span
  <2>8. \A c \in Cell \ Area : flash[c] = Other
    BY DEF OutsideInv
  <2>9. \A c \in Cell \ Area : flash'[c] = Other /\ want'[c] = Other
    BY <2>4, <2>5, <2>7, <2>8
  <2>10. waddr' + Len(wdata') <= SECTOR * FONTSECSIZE
    BY <2>3, <2>4, <2>5
  <2>. QED
    BY <2>9, <2>10 DEF OutsideInv
<1>6. CASE SaveInfo
  <2> SUFFICES ASSUME ~skipped PROVE OutsideInv'
    BY <1>6 DEF OutsideInv, SaveInfo, ram
  <2>1. /\ flash' = flash /\ waddr' = 0 /\ wdata' = <<FontOk, InfoCell(ftinfo)>>
        /\ \A c \in Cell : c >= InfoLen => want'[c] = flash[c]
    BY <1>6, SaveCells
  <2>2. Len(<<FontOk, InfoCell(ftinfo)>>) = InfoLen
    BY <1>0, HeadFacts DEF ProgType
  <2>3. waddr' + Len(wdata') = InfoLen
    BY <2>1, <2>2 DEF InfoLen
  <2>4. \A c \in Cell \ Area : c >= InfoLen
    <3> HIDE DEF Z
    <3>. QED
      BY <1>0 DEF InfoLen
  <2>5. \A c \in Cell \ Area : flash[c] = Other
    BY DEF OutsideInv
  <2>6. waddr' + Len(wdata') <= SECTOR * FONTSECSIZE
    <3>1. InfoLen <= Z
      <4> HIDE DEF Z
      <4>. QED
        BY <1>0 DEF InfoLen
    <3>. QED
      BY <2>3, <3>1
  <2>. QED
    BY <2>1, <2>4, <2>5, <2>6 DEF OutsideInv
<1>7. CASE FlashBusy
  <2>1. W25QXX_Write /\ skipped' = skipped
    BY <1>7 DEF FlashBusy, ram
  <2> SUFFICES ASSUME ~skipped PROVE OutsideInv'
    BY <2>1 DEF OutsideInv
  <2>2. wpc # "none" /\ want' = want
    BY <1>0, <2>1, WriteStep
  <2>3. /\ waddr + Len(wdata) <= SECTOR * FONTSECSIZE
        /\ \A c \in Cell \ Area : flash[c] = Other /\ want[c] = Other
    BY <2>2 DEF OutsideInv
  <2>4. /\ wpc' # "none" => waddr' + Len(wdata') <= SECTOR * FONTSECSIZE
        /\ \A c \in Cell \ Area : flash'[c] \in {flash[c], want[c]}
    BY <1>0, <2>1, <2>3, WriteInside
  <2>. QED
    BY <2>2, <2>3, <2>4 DEF OutsideInv
<1>8. CASE LosePower
  <2>1. ChipLosesPower /\ skipped' = skipped
    BY <1>8 DEF LosePower
  <2>2. /\ wpc' = "none" /\ (wpc = "none" => flash' = flash)
        /\ \A c \in Cell : flash'[c] \in {flash[c], want[c]}
    BY <1>0, <2>1, PowerStep
  <2>. QED
    BY <2>1, <2>2 DEF OutsideInv
<1>. QED
  BY <1>1, <1>3, <1>4, <1>5, <1>6, <1>7, <1>8 DEF Next, update_font

-----------------------------------------------------------------------------
(* The theorems.                                                           *)

FontInv ==
  /\ BaseInv /\ NotOkInv /\ ErasedInv /\ CopyInv /\ SaveInv
  /\ FontsMatchInfo /\ UpdatedInv /\ OutsideInv

LEMMA FontInit == ASSUME FontsFit, Init PROVE FontInv
<1>1. /\ flash = [c \in Cell |-> IF c \in Area THEN FF ELSE Other] /\ want = flash
      /\ wpc = "none" /\ waddr = 0 /\ wdata = <<>> /\ paddr = 0 /\ pdata = <<>>
      /\ upc = "off" /\ card \in Card /\ i = 0 /\ fx = 0 /\ offx = 0
      /\ ftinfo = NoInfo /\ rval = NoResult /\ skipped = FALSE
  BY DEF Init, ChipInit
<1>2. ChipType
  <2>1. <<>> \in Seq(Value) /\ Len(<<>>) = 0 /\ 0 + 0 <= SECTOR * SECTORS
    BY AreaFacts, EmptySeq
  <2>. QED
    BY <1>1, <2>1, ValueFacts DEF ChipType
<1>3. ProgType
  <2>1. 0 \in 0..FONTSECSIZE /\ 0 \in Nat
    BY AreaFacts
  <2>. QED
    BY <1>1, <2>1, FontFacts, NoInfoFits DEF ProgType
<1>4. WriteInv /\ StageInv /\ PlaceInv /\ OutsideInv
  BY <1>1 DEF WriteInv, StageInv, PlaceInv, OutsideInv
<1>5. flash[0] = FF /\ FF # FontOk
  <2> DEFINE Z == SECTOR * FONTSECSIZE
  <2>1. Z \in Nat /\ InfoLen < Z /\ Area = 0..(Z - 1)
    BY AreaFacts
  <2> HIDE DEF Z
  <2>2. 0 \in Area
    BY <2>1 DEF InfoLen
  <2>. QED
    BY <1>1, <2>2, AreaFacts, ValueFacts
<1>6. NoResult \notin 1..NF /\ NoResult # 0
  BY FontFacts DEF NoResult
<1>7. NotOkInv /\ ErasedInv /\ CopyInv /\ SaveInv
  BY <1>1, <1>5 DEF NotOkInv, ErasedInv, CopyInv, SaveInv
<1>8. FontsMatchInfo /\ UpdatedInv
  BY <1>1, <1>5, <1>6 DEF FontsMatchInfo, UpdatedInv, Usable
<1>. QED
  BY <1>2, <1>3, <1>4, <1>7, <1>8 DEF FontInv, BaseInv

LEMMA FontStep == ASSUME FontsFit, FontInv, [Next]_vars PROVE FontInv'
<1>1. /\ BaseInv /\ NotOkInv /\ ErasedInv /\ CopyInv /\ SaveInv
      /\ FontsMatchInfo /\ UpdatedInv /\ OutsideInv
  BY DEF FontInv
<1>2. BaseInv'
  BY <1>1, ChipStep, ProgStep, StageStep, PlaceStep DEF BaseInv
<1>3. NotOkInv' /\ ErasedInv' /\ CopyInv'
  BY <1>1, NotOkStep, ErasedStep, CopyStep
<1>4. SaveInv' /\ FontsMatchInfo' /\ UpdatedInv'
  BY <1>1, SaveStep, LibraryStep, UpdatedStep
<1>5. OutsideInv'
  BY <1>1, OutsideStep
<1>. QED
  BY <1>2, <1>3, <1>4, <1>5 DEF FontInv

LEMMA FontAlways == ASSUME FontsFit PROVE Spec => []FontInv
<1>1. Init => FontInv
  BY FontInit
<1>2. FontInv /\ [Next]_vars => FontInv'
  BY FontStep
<1>. QED
  BY <1>1, <1>2, PTL DEF Spec

\* Type correctness, of which one part is not about types: no cell is ever
\* programmed over old contents, and no write goes beyond the chip, not even of a
\* font that is placed at its end because the one before it was skipped.
THEOREM TypeCorrect == ASSUME FontsFit PROVE Spec => []TypeOK
<1>1. FontInv => TypeOK
  <2> SUFFICES ASSUME FontInv PROVE TypeOK
    OBVIOUS
  <2>1. ChipType /\ ProgType
    BY DEF FontInv, BaseInv
  <2>2. \A c \in Cell : flash[c] # Mixed
    BY <2>1, ValueFacts DEF ChipType
  <2>. QED
    BY <2>1, <2>2 DEF TypeOK, ChipType, ProgType
<1>. QED
  BY <1>1, FontAlways, PTL

\* Every write the update makes, of a block of a font or of ftinfo, changes the cells
\* it was given and no other, whatever sectors W25QXX_Write erases on the way, for
\* every sector and page size.
THEOREM WriteExact == ASSUME FontsFit PROVE Spec => WriteIsExact
<1>1. FontInv /\ [Next]_vars =>
        [wpc # "none" /\ wpc' = "none" /\ upc' # "off" => flash' = want]_vars
  <2> SUFFICES ASSUME FontInv, [Next]_vars, wpc # "none", wpc' = "none", upc' # "off"
               PROVE  flash' = want
    OBVIOUS
  <2>1. ChipType /\ WriteInv
    BY DEF FontInv, BaseInv
  <2>2. CASE W25QXX_Write
    BY <2>1, <2>2, WriteStep
  <2>3. CASE EraseNext
    BY <2>3 DEF EraseNext, write
  <2>4. CASE CopyBlock \/ SaveInfo
    BY <2>4 DEF CopyBlock, SaveInfo, BeginWrite
  <2>5. CASE LosePower
    BY <2>5 DEF LosePower
  <2>. QED
    BY <2>2, <2>3, <2>4, <2>5, QuietSteps DEF Next, update_font, FlashBusy, chip
<1>. QED
  BY <1>1, FontAlways, PTL DEF Spec, WriteIsExact

\* After an update that failed half-way font_init accepts no library, whatever
\* was in the area before and wherever the power fails.
THEOREM FailedNotUsable == ASSUME FontsFit PROVE Spec => []FailedUpdateIsNotUsable
<1>1. FontInv => FailedUpdateIsNotUsable
  BY DEF FontInv, NotOkInv, FailedUpdateIsNotUsable, Usable
<1>. QED
  BY <1>1, FontAlways, PTL

\* As long as memory never ran short: what is outside the area, FATFS's files and the
\* user's data, stays as it is, whatever is erased and written and wherever the power
\* has failed.
THEOREM OthersKept == ASSUME FontsFit PROVE Spec => []OthersAreKept
<1>1. FontInv => OthersAreKept
  BY DEF FontInv, OutsideInv, OthersAreKept
<1>. QED
  BY <1>1, FontAlways, PTL

\* As long as memory never ran short: flash holds fontok and the addresses only
\* together with all the fonts of one card, wherever the power has failed.
THEOREM FontsMatch == ASSUME FontsFit PROVE Spec => []FontsMatchInfo
<1>1. FontInv => FontsMatchInfo
  BY DEF FontInv
<1>. QED
  BY <1>1, FontAlways, PTL

\* As long as memory never ran short: after an update that returned 0 the whole
\* library is there, until the next one begins.
THEOREM UpdatedUsable == ASSUME FontsFit PROVE Spec => []UpdatedFontsAreUsable
<1>1. FontInv => UpdatedFontsAreUsable
  BY DEF FontInv, UpdatedInv, FontsMatchInfo, UpdatedFontsAreUsable, LibraryIsThere, Usable
<1>. QED
  BY <1>1, FontAlways, PTL
=============================================================================
