----------------------------- MODULE FontUpdate -----------------------------
(***************************************************************************)
(* The font library in flash (fontupd.c): update_font erases the area,     *)
(* copies the font files from a card one after the other and saves ftinfo, *)
(* with fontok in its first byte, last; font_init reads ftinfo at start.   *)
(* The power may fail at any step, a file may be missing or unreadable,    *)
(* memory may be short.                                                    *)
(*                                                                         *)
(* A cell stands for many bytes.  ftinfo is two cells, fontok and the      *)
(* addresses and sizes; the first font follows it in the same sector.      *)
(*                                                                         *)
(* Addresses are counted from FONTINFOADDR to the end of the chip and, as  *)
(* the chip takes 24 bits of them, on from its address 0, where FATFS is.  *)
(***************************************************************************)
EXTENDS W25QXX, Integers

CONSTANTS
  FONTSECSIZE, \* sectors reserved for ftinfo and the fonts
  Ones,        \* the cell at address 0XFFFFFFFF, the last one of the chip
  NF,          \* font files: UNIGBK, GBK12, GBK16, GBK24
  FileLen,     \* FileLen[v][f]: the cells of file f on card v
  MaxUpdates   \* updates (a bound of the model)

Card == DOMAIN FileLen
Font == 0..(NF - 1)

ASSUME FontAssumption ==
  /\ NF \in 1..4 /\ MaxUpdates \in Nat   \* 5 and more are other results
  /\ FileLen \in [Card -> [Font -> Nat \ {0}]]

InfoLen == 2

\* The board: the area is 791 sectors, the chip has 1024 from FONTINFOADDR to its
\* end and 3072 before, where FATFS is.
ASSUME AreaAssumption ==
  /\ FONTSECSIZE \in Nat \ {0} /\ Ones \in Nat /\ (Ones + 1) % SECTOR = 0
  /\ InfoLen < SECTOR * FONTSECSIZE /\ SECTOR * FONTSECSIZE <= Ones
  /\ Ones + SECTOR * FONTSECSIZE <= SECTOR * SECTORS

\* The font files fit into the area: top[f] is the highest address at which font
\* f begins, and the last block of each font, of which all cells are written, ends
\* in the area.  No code checks it; FONTSECSIZE is chosen so: of its 3239936 bytes
\* ftinfo and the files take 3238700 (fontupd.c:22), and the last block of GBK24,
\* 23940 characters of 72 bytes, adds 736 of the other 1236.
Fits(top) ==
  /\ top \in [0..NF -> InfoLen..(SECTOR * FONTSECSIZE)]
  /\ \A v \in Card, f \in Font :
       /\ top[f] + FileLen[v][f] <= top[f + 1]
       /\ top[f] + (FileLen[v][f] \div SECTOR + 1) * SECTOR <= SECTOR * FONTSECSIZE

FontOk   == <<"0XAA">>
Junk     == <<"junk">>     \* what tempbuf held before
Other    == <<"other">>    \* what others keep outside the area
NoResult == 255

VARIABLES
  upc,         \* "off", "idle", and the stages of update_font
  card,        \* the card the files are read from
  i, fx,       \* the sector being erased, the font being copied
  offx,        \* what has been copied of it
  ftinfo,      \* addr and size of each font, in RAM
  updates,     \* updates begun
  rval,        \* history: what the last update returned
  skipped      \* history: an update has left a font out, for want of memory

ram  == <<card, i, fx, offx, ftinfo, updates, rval, skipped>>
vars == <<chip, upc, ram>>

\* ftinfo without power, and as it is read from erased flash: a size of 0XFFFFFFFF
\* is added like -1.
NoInfo  == [addr |-> [f \in Font |-> 0], size |-> [f \in Font |-> 0]]
AllOnes == [addr |-> [f \in Font |-> Ones], size |-> [f \in Font |-> -1]]

Bytes(v, f, from, n) == [k \in 1..n |-> <<"font", v, f, from + k - 1>>]

InfoCell(inf) == <<"info", inf.addr, inf.size>>

\* Nobody has written to the area yet.
Area == 0..(SECTOR * FONTSECSIZE - 1)

Init ==
  /\ ChipInit([c \in Cell |-> IF c \in Area THEN FF ELSE Other])
  /\ upc = "off"
  /\ card \in Card /\ i = 0 /\ fx = 0 /\ offx = 0
  /\ ftinfo = NoInfo /\ updates = 0 /\ rval = NoResult /\ skipped = FALSE

\* What font_init finds.
Usable == flash[0] = FontOk

\* ftinfo is what flash holds, also when fontok is not there.
font_init ==
  /\ upc = "off"
  /\ upc' = "idle"
  /\ ftinfo' = IF flash[1][1] = "info"
               THEN [addr |-> flash[1][2], size |-> flash[1][3]] ELSE AllOnes
  /\ UNCHANGED <<chip, card, i, fx, offx, updates, rval, skipped>>

-----------------------------------------------------------------------------
(* update_font                                                             *)

\* No memory: 5.  A file is missing: one of bits 4 to 7.
Refuse(code) ==
  /\ upc = "idle" /\ updates < MaxUpdates
  /\ updates' = updates + 1 /\ rval' = code
  /\ UNCHANGED <<chip, upc, card, i, fx, offx, ftinfo, skipped>>

BeginUpdate_KeepsFirst(v) ==
  /\ upc = "idle" /\ updates < MaxUpdates
  /\ updates' = updates + 1 /\ rval' = NoResult
  /\ upc' = "erase" /\ card' = v /\ i' = 1
  /\ UNCHANGED <<chip, fx, offx, ftinfo, skipped>>

BeginUpdate(v) ==
  /\ upc = "idle" /\ updates < MaxUpdates
  /\ updates' = updates + 1 /\ rval' = NoResult
  /\ upc' = "erase" /\ card' = v /\ i' = 0
  /\ UNCHANGED <<chip, fx, offx, ftinfo, skipped>>

EraseNext_OneMore ==
  /\ upc = "erase" /\ i <= FONTSECSIZE
  /\ flash' = IF \A c \in SectorCells(i) : flash[c] = FF THEN flash ELSE Erased(i)
  /\ i' = i + 1
  /\ UNCHANGED <<write, upc, card, fx, offx, ftinfo, updates, rval, skipped>>

\* Sectors that are not FF already are erased, from the first one on.
EraseNext ==
  /\ upc = "erase" /\ i < FONTSECSIZE
  /\ flash' = IF \A c \in SectorCells(i) : flash[c] = FF THEN flash ELSE Erased(i)
  /\ i' = i + 1
  /\ UNCHANGED <<write, upc, card, fx, offx, ftinfo, updates, rval, skipped>>

AllErased ==
  /\ upc = "erase" /\ i = FONTSECSIZE
  /\ upc' = "open" /\ fx' = 0
  /\ UNCHANGED <<chip, card, i, offx, ftinfo, updates, rval, skipped>>

\* updata_fontx: the font goes where the one before it ends.
OpenFont ==
  /\ upc = "open"
  /\ ftinfo' = [addr |-> [ftinfo.addr EXCEPT ![fx] =
                            IF fx = 0 THEN InfoLen
                            ELSE ftinfo.addr[fx - 1] + ftinfo.size[fx - 1]],
                size |-> [ftinfo.size EXCEPT ![fx] = FileLen[card][fx]]]
  /\ offx' = 0 /\ upc' = "read"
  /\ UNCHANGED <<chip, card, i, fx, updates, rval, skipped>>

\* The next font, or ftinfo once the last one is done.
FontDone ==
  IF fx = NF - 1 THEN upc' = "save" /\ UNCHANGED fx
                 ELSE upc' = "open" /\ fx' = fx + 1

\* tempbuf is NULL: nothing is copied, and the result is f_open's FR_OK.
NoTempbuf ==
  /\ upc = "open"
  /\ FontDone /\ skipped' = TRUE
  /\ UNCHANGED <<chip, card, i, offx, ftinfo, updates, rval>>

\* f_open or f_read fails: update_font returns 1 to 4.
FileFails ==
  /\ upc \in {"open", "read"}
  /\ rval' = fx + 1 /\ upc' = "idle"
  /\ UNCHANGED <<chip, card, i, fx, offx, ftinfo, updates, skipped>>

\* f_read gets up to 4096 bytes; all 4096 of tempbuf are written.
bread == Lesser(SECTOR, ftinfo.size[fx] - offx)

CopyBlock ==
  /\ upc = "read"
  /\ \E old \in {Junk, FF} :
       BeginWrite(ftinfo.addr[fx] + offx,
                  Bytes(card, fx, offx, bread) \o [k \in 1..(SECTOR - bread) |-> old])
  /\ upc' = "copy"
  /\ UNCHANGED ram

BlockCopied_NoAdvance ==
  /\ upc = "copy" /\ wpc = "none"
  /\ IF bread = SECTOR THEN upc' = "read" /\ UNCHANGED fx ELSE FontDone
  /\ UNCHANGED <<chip, card, i, offx, ftinfo, updates, rval, skipped>>

BlockCopied_DropsTail ==
  /\ upc = "copy" /\ wpc = "none"
  /\ offx' = offx + bread
  /\ IF offx + 2 * SECTOR <= ftinfo.size[fx] THEN upc' = "read" /\ UNCHANGED fx ELSE FontDone
  /\ UNCHANGED <<chip, card, i, ftinfo, updates, rval, skipped>>

BlockCopied ==
  /\ upc = "copy" /\ wpc = "none"
  /\ offx' = offx + bread
  /\ IF bread = SECTOR THEN upc' = "read" /\ UNCHANGED fx ELSE FontDone
  /\ UNCHANGED <<chip, card, i, ftinfo, updates, rval, skipped>>

SaveInfo ==
  /\ upc = "save"
  /\ BeginWrite(0, <<FontOk, InfoCell(ftinfo)>>)
  /\ upc' = "saving"
  /\ UNCHANGED ram

InfoSaved ==
  /\ upc = "saving" /\ wpc = "none"
  /\ rval' = 0 /\ upc' = "idle"
  /\ UNCHANGED <<chip, card, i, fx, offx, ftinfo, updates, skipped>>

FlashBusy == W25QXX_Write /\ UNCHANGED <<upc, ram>>

LosePower ==
  /\ upc # "off"
  /\ ChipLosesPower
  /\ upc' = "off"
  /\ i' = 0 /\ fx' = 0 /\ offx' = 0 /\ ftinfo' = NoInfo
  /\ UNCHANGED <<card, updates, rval, skipped>>

update_font ==
  \/ EraseNext \/ AllErased \/ OpenFont \/ NoTempbuf \/ CopyBlock
  \/ BlockCopied \/ SaveInfo \/ InfoSaved \/ FlashBusy

Next ==
  \/ font_init \/ update_font \/ FileFails \/ LosePower
  \/ \E v \in Card : BeginUpdate(v)
  \/ \E code \in {5, 16} : Refuse(code)

Spec == Init /\ [][Next]_vars

(* The processor runs on; nobody has to ask for an update, nothing fails   *)
(* because it must.                                                        *)
FairSpec == Spec /\ WF_vars(update_font)

-----------------------------------------------------------------------------
(* Properties.                                                             *)

\* No cell is ever programmed over old contents, and no write goes beyond the
\* chip's address space; where it may go is the matter of OthersAreKept.
TypeOK ==
  /\ \A c \in Cell : flash[c] # Mixed
  /\ wpc \in {"none", "check", "erase", "program"}
  /\ waddr \in Nat /\ waddr + Len(wdata) <= SECTOR * SECTORS
  /\ paddr \in Nat /\ paddr + Len(pdata) <= SECTOR * SECTORS
  /\ upc \in {"off", "idle", "erase", "open", "read", "copy", "save", "saving"}
  /\ card \in Card /\ i \in 0..FONTSECSIZE /\ fx \in Font /\ offx \in Nat
  /\ rval \in {0, 5, 16, NoResult} \cup 1..NF /\ skipped \in BOOLEAN

\* fontupd.c:26-28: the first 12M of the chip are FATFS's, what is behind the area is
\* the user's.  As long as memory never ran short, an update, although it writes
\* whole blocks and erases whole sectors, leaves both alone, wherever the power
\* fails.  (Not when the first font is skipped after a start with erased flash: the
\* next one then begins at the end of the chip and runs over into FATFS.)
OthersAreKept == ~skipped => \A c \in Cell \ Area : flash[c] = Other

Complete(addr, size) ==
  \E v \in Card : \A f \in Font :
    /\ size[f] = FileLen[v][f]
    /\ \A k \in 0..(size[f] - 1) : flash[addr[f] + k] = <<"font", v, f, k>>

\* As long as memory never ran short: whenever flash holds both fontok and
\* ftinfo's addresses, all the fonts are there, whole and from one card,
\* wherever the power failed before.  (fontok without the addresses is what a
\* torn page can leave; font_init, which looks at fontok only, accepts it.)
FontsMatchInfo ==
  Usable /\ flash[1] # FF /\ ~skipped => Complete(flash[1][2], flash[1][3])

\* As long as memory never ran short: after an update that returned 0, and
\* until the next one, font_init finds all the fonts of that card, whatever
\* happens to the power.
LibraryIsThere == Usable /\ flash[1] # FF /\ Complete(flash[1][2], flash[1][3])

UpdatedFontsAreUsable == rval = 0 /\ ~skipped => LibraryIsThere

\* fontupd.c:126: update_font returns 0 for a successful update.
ZeroMeansUpdated == rval = 0 => LibraryIsThere

\* An update that failed half-way leaves no library that font_init accepts.
FailedUpdateIsNotUsable == rval \in 1..NF => ~Usable

\* W25QXX_Write changes the cells it was given and no other, although it
\* erases whole sectors on the way.
WriteIsExact ==
  [][wpc # "none" /\ wpc' = "none" /\ upc' # "off" => flash' = want]_vars

\* An update that is begun ends, unless the power fails.
UpdateEnds == (upc \notin {"off", "idle"}) ~> (upc \in {"off", "idle"})
=============================================================================
