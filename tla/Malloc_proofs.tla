--------------------------- MODULE Malloc_proofs ---------------------------
(***************************************************************************)
(* Proofs about Malloc, for every table length, block size and request.    *)
(*                                                                         *)
(* The inductive invariant IInv says that table and clients agree          *)
(* (Consistent) and what the downward search knows (Searched): the run of  *)
(* free entries it has counted, and that no base above offset has room.    *)
(***************************************************************************)
EXTENDS Malloc, TLAPS

\* Table and clients agree: TableMatchesLive and RegionsDisjoint over
\* parameters, so that the lemmas can speak of the table after a step.
Consistent(map, lv) ==
  /\ map \in [Block -> 0..TBL] /\ lv \in [Block -> 0..TBL]
  /\ \A b \in Block : \A i \in Span(b, lv[b]) : i \in Block /\ map[i] = lv[b]
  /\ \A b \in Block : map[b] # 0 => \E o \in Block : b \in Span(o, lv[o])
  /\ \A b, c \in Block : b # c => Span(b, lv[b]) \cap Span(c, lv[c]) = {}

FreeRun(map, b, n) == b + n <= TBL /\ \A i \in Span(b, n) : map[i] = 0

Unused == ~memrdy => \A b \in Block : memmap[b] = 0 /\ live[b] = 0

\* What the search knows while it runs.
Searched ==
  pc = "scan" =>
    /\ memrdy
    /\ nmemb \in 1..(2 * TBL)
    /\ cmemb < nmemb /\ offset + cmemb <= TBL - 1
    /\ \A i \in (offset + 1)..(offset + cmemb) : memmap[i] = 0
    /\ offset + cmemb = TBL - 1 \/ memmap[offset + cmemb + 1] # 0
    /\ \A b \in Block : b > offset => ~FreeRun(memmap, b, nmemb)
    /\ old # NULL => live[old] > 0

IInv == TypeOK /\ Consistent(memmap, live) /\ Unused /\ Searched

-----------------------------------------------------------------------------
(* Lemmas about the operators.                                             *)

\* The table has at least one entry.
LEMMA TableLength == TBL \in Nat /\ TBL > 0
BY MallocAssumption, SMTT(30)

\* my_mem_init writes a value a block can hold.
LEMMA ClearedIsData == 0 \in Data
BY MallocAssumption

\* Between one and 2 * TBL blocks for a request of the model.
LEMMA NBlocksRange ==
  ASSUME NEW bytes \in 1..MaxSize
  PROVE  NBlocks(bytes) \in 1..(2 * TBL)
<1> DEFINE q == bytes \div BLK
           r == bytes % BLK
<1>1. /\ TBL \in Nat /\ TBL > 0 /\ BLK \in Nat /\ BLK > 0
      /\ MaxSize \in Nat /\ MaxSize <= 2 * TBL * BLK
  BY MallocAssumption, SMTT(30)
<1>2. /\ q \in Nat /\ r \in 0..(BLK - 1) /\ bytes = BLK * q + r
  BY <1>1
<1>3. q <= 2 * TBL
  <2>1. SUFFICES ASSUME q >= 2 * TBL + 1 PROVE FALSE
    BY <1>1, <1>2
  <2>2. BLK * q >= BLK * (2 * TBL + 1)
    BY <1>1, <1>2, <2>1
  <2> QED BY <1>1, <1>2, <2>2
<1>4. r # 0 => q < 2 * TBL
  <2>1. SUFFICES ASSUME r # 0, q = 2 * TBL PROVE FALSE
    BY <1>1, <1>2, <1>3
  <2> QED BY <1>1, <1>2, <2>1
<1>5. r = 0 => q >= 1
  BY <1>1, <1>2
<1> QED BY <1>1, <1>2, <1>3, <1>4, <1>5 DEF NBlocks

\* Marking a free run and giving it to a client keeps table and clients in
\* agreement.
LEMMA AllocKeepsConsistent ==
  ASSUME NEW map, NEW lv, Consistent(map, lv),
         NEW o \in Block, NEW n \in 1..TBL, FreeRun(map, o, n)
  PROVE  Consistent(Mark(map, o, n, n), [lv EXCEPT ![o] = n])
<1> DEFINE m2 == Mark(map, o, n, n)
           l2 == [lv EXCEPT ![o] = n]
<1>0. TBL \in Nat /\ TBL > 0 /\ o + n <= TBL /\ Span(o, n) \subseteq Block
  BY TableLength DEF FreeRun, Span, Block
<1>1. m2 \in [Block -> 0..TBL] /\ l2 \in [Block -> 0..TBL]
  BY <1>0 DEF Consistent, Mark
<1>2. \A i \in Block : m2[i] = IF i \in Span(o, n) THEN n ELSE map[i]
  BY DEF Mark
<1>3. l2[o] = n /\ \A b \in Block : b # o => l2[b] = lv[b]
  BY DEF Consistent
<1>4. ASSUME NEW b \in Block, b # o, NEW i \in Span(b, lv[b])
      PROVE  i \in Block /\ i \notin Span(o, n) /\ map[i] = lv[b]
  <2>1. i \in Block /\ map[i] = lv[b]
    BY <1>4 DEF Consistent
  <2>2. lv[b] # 0
    BY <1>4 DEF Consistent, Span, Block
  <2> QED BY <2>1, <2>2 DEF FreeRun
<1>5. \A b \in Block : \A i \in Span(b, l2[b]) : i \in Block /\ m2[i] = l2[b]
  BY <1>0, <1>2, <1>3, <1>4
<1>6. \A b \in Block : m2[b] # 0 => \E c \in Block : b \in Span(c, l2[c])
  <2> SUFFICES ASSUME NEW b \in Block, m2[b] # 0, b \notin Span(o, n)
               PROVE  \E c \in Block : b \in Span(c, l2[c])
    BY <1>3
  <2>1. PICK c \in Block : b \in Span(c, lv[c])
    BY <1>2 DEF Consistent
  <2>2. CASE c = o
    <3>1. lv[o] = 0
      <4> SUFFICES ASSUME lv[o] # 0 PROVE FALSE
        OBVIOUS
      <4>1. o \in Span(o, lv[o]) /\ o \in Span(o, n)
        BY DEF Consistent, Span, Block
      <4> QED BY <4>1 DEF Consistent, FreeRun
    <3> QED BY <2>1, <2>2, <3>1 DEF Span, Block
  <2> QED BY <1>3, <2>1, <2>2
<1>7. \A b, c \in Block : b # c => Span(b, l2[b]) \cap Span(c, l2[c]) = {}
  <2>1. \A b \in Block : b # o => Span(b, l2[b]) \cap Span(o, l2[o]) = {}
    BY <1>3, <1>4
  <2>2. \A b, c \in Block : b # c /\ b # o /\ c # o =>
           Span(b, l2[b]) \cap Span(c, l2[c]) = {}
    BY <1>3 DEF Consistent
  <2> QED BY <2>1, <2>2
<1> QED BY <1>1, <1>5, <1>6, <1>7 DEF Consistent

\* Clearing as many entries as the first one says, and taking the region from
\* its client, keeps table and clients in agreement; freeing a free block
\* changes nothing.
LEMMA FreeKeepsConsistent ==
  ASSUME NEW map, NEW lv, Consistent(map, lv),
         NEW p \in Block, lv[p] > 0 \/ map[p] = 0
  PROVE  Consistent(Mark(map, p, map[p], 0), [lv EXCEPT ![p] = 0])
<1> DEFINE m2 == Mark(map, p, map[p], 0)
           l2 == [lv EXCEPT ![p] = 0]
<1>0. TBL \in Nat /\ TBL > 0
  BY TableLength
<1>1. map[p] = lv[p]
  <2>1. CASE lv[p] > 0
    <3>1. p \in Span(p, lv[p])
      BY <2>1 DEF Consistent, Span, Block
    <3> QED BY <3>1 DEF Consistent
  <2>2. CASE map[p] = 0 /\ ~(lv[p] > 0)
    BY <2>2, <1>0 DEF Consistent
  <2> QED BY <2>1, <2>2
<1>2. m2 \in [Block -> 0..TBL] /\ l2 \in [Block -> 0..TBL]
  BY <1>0 DEF Consistent, Mark
<1>3. \A i \in Block : m2[i] = IF i \in Span(p, lv[p]) THEN 0 ELSE map[i]
  BY <1>1 DEF Mark
<1>4. l2[p] = 0 /\ \A b \in Block : b # p => l2[b] = lv[b]
  BY DEF Consistent
<1>5. Span(p, l2[p]) = {}
  BY <1>4 DEF Span, Block
<1>6. \A b \in Block : \A i \in Span(b, l2[b]) : i \in Block /\ m2[i] = l2[b]
  <2> SUFFICES ASSUME NEW b \in Block, b # p, NEW i \in Span(b, lv[b])
               PROVE  i \in Block /\ m2[i] = lv[b]
    BY <1>4, <1>5
  <2>1. i \in Block /\ map[i] = lv[b] /\ i \notin Span(p, lv[p])
    BY DEF Consistent
  <2> QED BY <2>1, <1>3
<1>7. \A b \in Block : m2[b] # 0 => \E c \in Block : b \in Span(c, l2[c])
  <2> SUFFICES ASSUME NEW b \in Block, m2[b] # 0
               PROVE  \E c \in Block : b \in Span(c, l2[c])
    OBVIOUS
  <2>1. map[b] # 0 /\ b \notin Span(p, lv[p])
    BY <1>3
  <2>2. PICK c \in Block : b \in Span(c, lv[c])
    BY <2>1 DEF Consistent
  <2> QED BY <1>4, <2>1, <2>2
<1>8. \A b, c \in Block : b # c => Span(b, l2[b]) \cap Span(c, l2[c]) = {}
  BY <1>4, <1>5 DEF Consistent
<1> QED BY <1>2, <1>6, <1>7, <1>8 DEF Consistent

-----------------------------------------------------------------------------
(* IInv is inductive.                                                      *)

\* Before the first call the table is zero and nobody holds anything.
LEMMA IInvInit == Init => IInv
<1> SUFFICES ASSUME Init PROVE IInv
  OBVIOUS
<1>1. TypeOK
  <2>1. memmap \in [Block -> 0..TBL] /\ live \in [Block -> 0..TBL]
    BY TableLength DEF Init
  <2>2. pool \in [Block -> Data]
    BY ClearedIsData DEF Init
  <2>3. memrdy \in BOOLEAN /\ pc \in {"idle", "scan"}
    BY DEF Init
  <2>4. old \in Block \cup {NULL} /\ ret \in Block \cup {NULL}
    BY DEF Init
  <2>5. nmemb \in Nat /\ offset \in -1..(TBL - 1) /\ cmemb \in 0..TBL
    BY TableLength DEF Init
  <2> QED BY <2>1, <2>2, <2>3, <2>4, <2>5 DEF TypeOK
<1>2. Consistent(memmap, live)
  BY TableLength DEF Init, Consistent, Span, Block
<1>3. Unused /\ Searched
  BY DEF Init, Unused, Searched
<1> QED BY <1>1, <1>2, <1>3 DEF IInv

\* A table and a client history of zeros agree.
LEMMA EmptyConsistent ==
  ASSUME NEW map \in [Block -> 0..TBL], NEW lv \in [Block -> 0..TBL],
         \A b \in Block : map[b] = 0 /\ lv[b] = 0
  PROVE  Consistent(map, lv)
BY TableLength DEF Consistent, Span, Block

\* mymalloc, myrealloc: the search starts with nothing found.
LEMMA BeginKeepsIInv ==
  ASSUME IInv, NEW ptr \in Block \cup {NULL}, NEW bytes \in 0..MaxSize,
         ptr # NULL => live[ptr] > 0, Begin(ptr, bytes)
  PROVE  IInv'
<1> USE DEF IInv
<1>1. memmap' \in [Block -> 0..TBL] /\ pool' \in [Block -> Data] /\ memrdy' = TRUE
  BY TableLength, ClearedIsData DEF Begin, mem, my_mem_init, TypeOK
<1>2. Consistent(memmap', live')
  <2>1. CASE memrdy
    BY <2>1 DEF Begin, mem
  <2>2. CASE ~memrdy
    <3>1. live' \in [Block -> 0..TBL] /\ \A b \in Block : memmap'[b] = 0 /\ live'[b] = 0
      BY <2>2 DEF Begin, my_mem_init, Unused, TypeOK
    <3> QED BY <1>1, <3>1, EmptyConsistent
  <2> QED BY <2>1, <2>2
<1>3. CASE bytes = 0
  <2>1. TypeOK'
    BY <1>1, <1>3 DEF Begin, TypeOK, search
  <2>2. Unused' /\ Searched'
    BY <1>1, <1>3 DEF Begin, Unused, Searched
  <2> QED BY <1>2, <2>1, <2>2
<1>4. CASE bytes # 0
  <2>1. nmemb' \in 1..(2 * TBL)
    BY <1>4, NBlocksRange DEF Begin
  <2>2. /\ pc' = "scan" /\ old' = ptr /\ offset' = TBL - 1 /\ cmemb' = 0
        /\ ret' = ret /\ live' = live
    BY <1>4 DEF Begin, Top
  <2>3. TypeOK'
    BY <1>1, <2>1, <2>2, TableLength DEF TypeOK
  <2>4. Unused' /\ Searched'
    BY <1>1, <2>1, <2>2, TableLength DEF Unused, Searched, Block
  <2> QED BY <1>2, <2>3, <2>4
<1> QED BY <1>3, <1>4

\* One step of the search: the base just left has no room.
LEMMA ScanKeepsIInv == IInv /\ Scan => IInv'
<1> SUFFICES ASSUME IInv, Scan PROVE IInv'
  OBVIOUS
<1> USE DEF IInv
<1>1. /\ memmap' = memmap /\ live' = live /\ memrdy' = memrdy /\ nmemb' = nmemb
      /\ pc' = "scan" /\ old' = old /\ ret' = ret /\ pool' = pool
      /\ cmemb' = RunHere /\ offset' = offset - 1 /\ RunHere # nmemb
      /\ offset \in 0..(TBL - 1) /\ offset \in Block
  BY TableLength DEF Scan, mem, TypeOK, Block
<1>2. /\ cmemb \in Nat /\ cmemb < nmemb /\ nmemb \in 1..(2 * TBL)
      /\ offset + cmemb <= TBL - 1
  BY DEF Searched, Scan, TypeOK
<1>3. TypeOK'
  BY <1>1, <1>2, TableLength DEF TypeOK, RunHere
<1>4. Consistent(memmap', live') /\ Unused'
  BY <1>1 DEF Unused
<1>5. ~FreeRun(memmap, offset, nmemb)
  <2>1. CASE memmap[offset] # 0
    BY <1>1, <1>2, <2>1 DEF FreeRun, Span
  <2>2. CASE memmap[offset] = 0
    <3>1. cmemb + 1 < nmemb
      BY <1>1, <1>2, <2>2 DEF RunHere
    <3>2. offset + cmemb = TBL - 1 \/ memmap[offset + cmemb + 1] # 0
      BY DEF Searched, Scan
    <3> QED BY <1>1, <1>2, <3>1, <3>2, TableLength DEF FreeRun, Span
  <2> QED BY <2>1, <2>2
<1>6. Searched'
  <2>1. cmemb' < nmemb' /\ offset' + cmemb' <= TBL - 1
    BY <1>1, <1>2, TableLength DEF RunHere
  <2>2. \A i \in (offset' + 1)..(offset' + cmemb') : memmap'[i] = 0
    BY <1>1, <1>2 DEF RunHere, Searched, Scan
  <2>3. offset' + cmemb' = TBL - 1 \/ memmap'[offset' + cmemb' + 1] # 0
    BY <1>1, <1>2, TableLength DEF RunHere, Searched, Scan
  <2>4. \A b \in Block : b > offset' => ~FreeRun(memmap', b, nmemb')
    BY <1>1, <1>5 DEF Searched, Scan, Block
  <2>5. memrdy' /\ nmemb' \in 1..(2 * TBL) /\ (old' # NULL => live'[old'] > 0)
    BY <1>1 DEF Searched, Scan
  <2> QED BY <2>1, <2>2, <2>3, <2>4, <2>5 DEF Searched
<1> QED BY <1>3, <1>4, <1>6

\* The run found is free, lies in the table, and the old region, if any, is
\* another one.
LEMMA FoundRun ==
  ASSUME IInv, Found
  PROVE  /\ offset \in Block /\ nmemb \in 1..TBL
         /\ FreeRun(memmap, offset, nmemb)
         /\ old # NULL => old \in Block /\ live[old] > 0 /\ old \notin Span(offset, nmemb)
<1> USE DEF IInv
<1>1. /\ offset \in 0..(TBL - 1) /\ RunHere = nmemb /\ nmemb \in 1..(2 * TBL)
      /\ cmemb \in Nat /\ offset + cmemb <= TBL - 1
      /\ \A i \in (offset + 1)..(offset + cmemb) : memmap[i] = 0
      /\ old # NULL => live[old] > 0
  BY TableLength DEF Found, TypeOK, Searched
<1>2. memmap[offset] = 0 /\ nmemb = cmemb + 1
  BY <1>1 DEF RunHere
<1>3. FreeRun(memmap, offset, nmemb) /\ offset \in Block /\ nmemb \in 1..TBL
  BY <1>1, <1>2, TableLength DEF FreeRun, Span, Block
<1>4. ASSUME old # NULL
      PROVE  old \in Block /\ live[old] > 0 /\ old \notin Span(offset, nmemb)
  <2>1. old \in Block /\ live[old] > 0 /\ live[old] \in Nat
    BY <1>1, <1>4, TableLength DEF TypeOK
  <2>2. memmap[old] = live[old]
    BY <2>1, TableLength DEF Consistent, Span, Block
  <2> QED BY <1>3, <2>1, <2>2 DEF FreeRun
<1> QED BY <1>3, <1>4

\* The end of a successful search, with the move and free of myrealloc.
LEMMA FoundKeepsIInv == IInv /\ Found => IInv'
<1> SUFFICES ASSUME IInv, Found PROVE IInv'
  OBVIOUS
<1> USE DEF IInv
<1> DEFINE marked == Mark(memmap, offset, nmemb, nmemb)
           given  == [live EXCEPT ![offset] = nmemb]
<1>1. /\ offset \in Block /\ nmemb \in 1..TBL
      /\ FreeRun(memmap, offset, nmemb)
      /\ old # NULL => old \in Block /\ live[old] > 0 /\ old \notin Span(offset, nmemb)
  BY FoundRun
<1>2. Consistent(marked, given)
  BY <1>1, AllocKeepsConsistent
<1>3. Consistent(memmap', live')
  <2>1. CASE old = NULL
    BY <1>2, <2>1 DEF Found
  <2>2. CASE old # NULL
    <3>1. old # offset
      BY <1>1, <2>2 DEF Span, Block
    <3>2. given[old] > 0
      BY <1>1, <2>2, <3>1 DEF TypeOK
    <3>3. Consistent(Mark(marked, old, marked[old], 0), [given EXCEPT ![old] = 0])
      BY <1>1, <1>2, <2>2, <3>2, FreeKeepsConsistent
    <3>4. live' = [given EXCEPT ![old] = 0] /\ memmap' = Mark(marked, old, marked[old], 0)
      BY <2>2 DEF Found
    <3> QED BY <3>3, <3>4
  <2> QED BY <2>1, <2>2
<1>4. pool' \in [Block -> Data]
  BY DEF Found, TypeOK, Copied
<1>5. TypeOK'
  BY <1>1, <1>3, <1>4 DEF Found, TypeOK, Consistent, search
<1>6. memrdy' = TRUE /\ pc' = "idle"
  BY DEF Found, Searched, TypeOK
<1>7. Unused' /\ Searched'
  BY <1>6 DEF Unused, Searched
<1> QED BY <1>3, <1>5, <1>7

\* The end of a search in vain.
LEMMA NotFoundKeepsIInv == IInv /\ NotFound => IInv'
BY DEF IInv, NotFound, mem, search, TypeOK, Consistent, Unused, Searched

\* myfree.
LEMMA FreeKeepsIInv ==
  ASSUME IInv, NEW ptr \in Block \cup {NULL, Outside}, myfree(ptr)
  PROVE  IInv'
<1> USE DEF IInv
<1>0. NULL \notin Block /\ Outside \notin Block
  BY TableLength DEF NULL, Outside, Block
<1>1. Consistent(memmap', live')
  <2>1. CASE UNCHANGED <<mem, live>>
    BY <2>1 DEF mem
  <2>2. CASE ~memrdy /\ my_mem_init /\ UNCHANGED live
    <3>1. /\ memmap' \in [Block -> 0..TBL] /\ live' \in [Block -> 0..TBL]
          /\ \A b \in Block : memmap'[b] = 0 /\ live'[b] = 0
      BY <2>2, TableLength DEF my_mem_init, Unused, TypeOK
    <3> QED BY <3>1, EmptyConsistent
  <2>3. CASE /\ ptr \in Block
             /\ memmap' = Mark(memmap, ptr, memmap[ptr], 0)
             /\ live' = [live EXCEPT ![ptr] = 0]
    BY <2>3, FreeKeepsConsistent DEF myfree
  <2> QED BY <2>1, <2>2, <2>3 DEF myfree
<1>2. pool' \in [Block -> Data] /\ memrdy' \in BOOLEAN
  <2>1. CASE UNCHANGED <<memrdy, pool>>
    BY <2>1 DEF TypeOK
  <2>2. CASE my_mem_init
    BY <2>2, ClearedIsData DEF my_mem_init
  <2> QED BY <2>1, <2>2 DEF myfree, mem
<1>3. TypeOK'
  BY <1>1, <1>2 DEF myfree, search, TypeOK, Consistent
<1>4. Unused'
  BY DEF myfree, mem, my_mem_init, Unused
<1>5. Searched'
  BY DEF myfree, Searched
<1> QED BY <1>1, <1>3, <1>4, <1>5

\* A client's write does not reach the table.
LEMMA WriteKeepsIInv ==
  ASSUME IInv, NEW b \in Block, NEW i \in Block, NEW d \in Data, Write(b, i, d)
  PROVE  IInv'
BY DEF IInv, Write, search, TypeOK, Consistent, Unused, Searched

\* Every step keeps IInv.
LEMMA IInvInductive == IInv /\ [Next]_vars => IInv'
<1> SUFFICES ASSUME IInv, [Next]_vars PROVE IInv'
  OBVIOUS
<1>0. NULL \notin Block
  BY TableLength DEF NULL, Block
<1>1. ASSUME NEW bytes \in 0..MaxSize, mymalloc(bytes) PROVE IInv'
  BY <1>1, BeginKeepsIInv DEF mymalloc
<1>2. ASSUME NEW ptr \in Block, NEW bytes \in 0..MaxSize, myrealloc(ptr, bytes)
      PROVE  IInv'
  BY <1>2, BeginKeepsIInv DEF myrealloc
<1>3. ASSUME NEW ptr \in Block \cup {NULL, Outside}, myfree(ptr) PROVE IInv'
  BY <1>3, FreeKeepsIInv
<1>4. ASSUME NEW b \in Block, NEW i \in Block, NEW d \in Data, Write(b, i, d)
      PROVE  IInv'
  BY <1>4, WriteKeepsIInv
<1>5. CASE UNCHANGED vars
  BY <1>5 DEF vars, mem, search, IInv, TypeOK, Consistent, Unused, Searched, FreeRun
<1> QED
  BY <1>1, <1>2, <1>3, <1>4, <1>5, ScanKeepsIInv, FoundKeepsIInv, NotFoundKeepsIInv
  DEF Next

-----------------------------------------------------------------------------
(* What follows from the invariant.                                        *)

\* IInv holds throughout.
THEOREM Invariance == Spec => []IInv
BY IInvInit, IInvInductive, PTL DEF Spec

\* malloc.c: no entry of the table exceeds the table, and the search stays
\* inside it (memmap is indexed with offset).
THEOREM TypeCorrect == Spec => []TypeOK
<1>1. IInv => TypeOK
  BY DEF IInv
<1> QED BY <1>1, Invariance, PTL

\* my_mem_malloc, my_mem_free: the table is what the clients hold, so a free
\* clears exactly one region.
THEOREM TableIsWhatClientsHold == Spec => []TableMatchesLive
<1>1. IInv => TableMatchesLive
  BY DEF IInv, Consistent, TableMatchesLive
<1> QED BY <1>1, Invariance, PTL

\* my_mem_malloc: no two clients are given a common block.
THEOREM NoOverlap == Spec => []RegionsDisjoint
<1>1. IInv => RegionsDisjoint
  BY DEF IInv, Consistent, RegionsDisjoint
<1> QED BY <1>1, Invariance, PTL

\* my_mem_perused counts the blocks the clients hold.
THEOREM UsageCorrect == Spec => []UsageIsWhatClientsHold
<1>1. ASSUME IInv PROVE UsageIsWhatClientsHold
  <2>1. \A b \in Block : live[b] \in 0..TBL /\ memmap[b] \in 0..TBL
    BY <1>1 DEF IInv, TypeOK
  <2>2. ASSUME NEW i, i \in UNION {Span(b, live[b]) : b \in Block}
        PROVE  i \in Block /\ memmap[i] # 0
    <3>1. PICK b \in Block : i \in Span(b, live[b])
      BY <2>2
    <3>2. i \in Block /\ memmap[i] = live[b]
      BY <1>1, <3>1 DEF IInv, Consistent
    <3> QED BY <2>1, <3>1, <3>2 DEF Span, Block
  <2>3. ASSUME NEW i \in Block, memmap[i] # 0
        PROVE  i \in UNION {Span(b, live[b]) : b \in Block}
    BY <1>1, <2>3 DEF IInv, Consistent
  <2>4. {b \in Block : memmap[b] # 0} = UNION {Span(b, live[b]) : b \in Block}
    BY <2>2, <2>3
  <2> QED BY <2>4 DEF UsageIsWhatClientsHold, my_mem_perused
<1> QED BY <1>1, Invariance, PTL

-----------------------------------------------------------------------------
(* Malloc implements Heap.                                                 *)

\* A gap between the clients' regions is a run of zeros in the table.
LEMMA GapIsFreeRun ==
  ASSUME Consistent(memmap, live), NEW b \in Block, NEW n \in 1..(2 * TBL)
  PROVE  H!Gap(b, n) <=> FreeRun(memmap, b, n)
<1>1. ASSUME NEW i \in Block PROVE i \in H!Used <=> memmap[i] # 0
  <2>1. ASSUME i \in H!Used PROVE memmap[i] # 0
    <3>1. PICK c \in Block : i \in Span(c, live[c])
      BY <2>1 DEF H!Used, H!Span, H!Block, Span, Block
    <3>2. memmap[i] = live[c] /\ live[c] \in 0..TBL
      BY <3>1 DEF Consistent
    <3> QED BY <3>1, <3>2 DEF Span, Block
  <2>2. ASSUME memmap[i] # 0 PROVE i \in H!Used
    <3>1. PICK c \in Block : i \in Span(c, live[c])
      BY <2>2 DEF Consistent
    <3> QED BY <3>1 DEF H!Used, H!Span, H!Block, Span, Block
  <2> QED BY <2>1, <2>2
<1>2. b + n <= TBL => H!Span(b, n) \subseteq Block /\ H!Span(b, n) = Span(b, n)
  BY TableLength DEF H!Span, Span, Block
<1> QED BY <1>1, <1>2 DEF H!Gap, FreeRun

\* Every step of the allocator is a step of Heap or a stutter.
LEMMA StepRefines ==
  ASSUME IInv, [Next]_vars
  PROVE  [H!Next]_(H!vars)
<1> USE DEF IInv
<1>0. H!Block = Block /\ H!NULL = NULL
  BY DEF H!Block, H!NULL, Block, NULL
<1>1. ASSUME NEW ptr \in Block \cup {NULL}, NEW bytes \in 0..MaxSize,
             Begin(ptr, bytes)
      PROVE  [H!Next]_(H!vars)
  <2>1. CASE bytes = 0
    <3>1. /\ live' = live /\ ret' = NULL
          /\ pc = "idle" /\ pc' = "idle" /\ old' = old /\ nmemb' = nmemb
      BY <1>1, <2>1 DEF Begin, search
    <3>2. H!Nothing
      BY <1>0, <3>1 DEF H!Nothing
    <3> QED BY <3>2 DEF H!Next
  <2>2. CASE bytes # 0
    <3>1. /\ live' = live /\ ret' = ret
          /\ pc = "idle" /\ pc' = "scan"
          /\ old' = ptr /\ nmemb' = NBlocks(bytes)
      BY <1>1, <2>2 DEF Begin
    <3>2. NBlocks(bytes) \in 1..(2 * TBL)
      BY <2>2, NBlocksRange
    <3>3. H!Ask(NBlocks(bytes), ptr)
      BY <3>1 DEF H!Ask
    <3> QED BY <1>0, <3>2, <3>3 DEF H!Next
  <2> QED BY <2>1, <2>2
<1>2. ASSUME Scan PROVE [H!Next]_(H!vars)
  BY <1>2 DEF Scan, H!vars
<1>3. ASSUME Found PROVE [H!Next]_(H!vars)
  <2>1. /\ offset \in Block /\ nmemb \in 1..(2 * TBL) /\ H!Gap(offset, nmemb)
        /\ old # NULL => old \in Block
    BY <1>3, FoundRun, GapIsFreeRun, TableLength
  <2>2. pc = "scan" /\ pc' = "idle"
    BY <1>3 DEF Found
  <2>3. H!Answer
    BY <1>0, <2>1, <2>2 DEF H!Answer
  <2>4. CASE old = NULL
    <3>1. live' = [live EXCEPT ![offset] = nmemb] /\ ret' = offset
      BY <1>3, <2>4 DEF Found
    <3>2. H!Alloc
      BY <1>0, <2>1, <2>2, <2>3, <2>4, <3>1 DEF H!Alloc
    <3> QED BY <3>2 DEF H!Next
  <2>5. CASE old # NULL
    <3>1. live' = [live EXCEPT ![offset] = nmemb, ![old] = 0] /\ ret' = offset
      BY <1>3, <2>5 DEF Found
    <3>2. H!Move
      BY <1>0, <2>1, <2>2, <2>3, <2>5, <3>1 DEF H!Move
    <3> QED BY <3>2 DEF H!Next
  <2> QED BY <2>4, <2>5
<1>4. ASSUME NotFound PROVE [H!Next]_(H!vars)
  <2>1. nmemb \in 1..(2 * TBL) /\ \A b \in Block : ~FreeRun(memmap, b, nmemb)
    BY <1>4, TableLength DEF NotFound, Searched, TypeOK, Block
  <2>2. \A b \in Block : ~H!Gap(b, nmemb)
    BY <2>1, GapIsFreeRun
  <2>3. pc = "scan" /\ pc' = "idle" /\ ret' = NULL /\ live' = live
    BY <1>4 DEF NotFound
  <2>4. H!Fail
    BY <1>0, <2>1, <2>2, <2>3 DEF H!Fail, H!Answer
  <2> QED BY <2>4 DEF H!Next
<1>5. ASSUME NEW ptr \in Block \cup {NULL, Outside}, myfree(ptr)
      PROVE  [H!Next]_(H!vars)
  <2>1. /\ pc = "idle" /\ pc' = "idle" /\ ret' = ret
        /\ old' = old /\ nmemb' = nmemb
    BY <1>5 DEF myfree, search
  <2>2. CASE live' = live
    BY <2>1, <2>2 DEF H!vars
  <2>3. CASE ptr \in Block /\ live' = [live EXCEPT ![ptr] = 0]
    <3>1. H!Free(ptr)
      BY <2>1, <2>3 DEF H!Free
    <3> QED BY <1>0, <2>3, <3>1 DEF H!Next
  <2> QED BY <1>5, <2>2, <2>3 DEF myfree
<1>6. ASSUME NEW b \in Block, NEW i \in Block, NEW d \in Data, Write(b, i, d)
      PROVE  [H!Next]_(H!vars)
  BY <1>6 DEF Write, H!vars, search
<1>7. CASE UNCHANGED vars
  BY <1>7 DEF vars, search, H!vars
<1> QED
  BY <1>1, <1>2, <1>3, <1>4, <1>5, <1>6, <1>7 DEF Next, mymalloc, myrealloc

\* malloc.c: a region handed out lies in a gap, a request fails only when no
\* gap is large enough, a free returns one region, myrealloc moves one.
THEOREM Refinement == Spec => ImplementsHeap
<1>1. Init => H!Init
  BY DEF Init, H!Init, H!Block, H!NULL, Block, NULL
<1>2. IInv /\ [Next]_vars => [H!Next]_(H!vars)
  BY StepRefines
<1> QED BY <1>1, <1>2, Invariance, PTL DEF Spec, ImplementsHeap, H!Spec

-----------------------------------------------------------------------------
(* What a step does to the contents.                                       *)

\* myrealloc: the new region starts with what the old one held.
THEOREM ReallocCopies == Spec => ReallocKeepsContents
<1> DEFINE Kept ==
      \A p, c \in Block :
        live[p] > 0 /\ live'[p] = 0 /\ live[c] = 0 /\ live'[c] > 0 =>
          \A k \in 0..(TBL - 1) :
            k < live[p] /\ k < live'[c] => pool'[c + k] = pool[p + k]
<1>1. ASSUME IInv, [Next]_vars PROVE [Kept]_vars
  <2> USE DEF IInv
  <2>1. ASSUME NEW p \in Block, NEW c \in Block,
               live[p] > 0, live'[p] = 0, live[c] = 0, live'[c] > 0,
               NEW k \in 0..(TBL - 1), k < live[p], k < live'[c], Found
        PROVE  pool'[c + k] = pool[p + k]
    <3>1. /\ offset \in Block /\ nmemb \in 1..TBL /\ FreeRun(memmap, offset, nmemb)
          /\ old # NULL => old \in Block
      BY <1>1, <2>1, FoundRun
    <3>2. old # NULL
      BY <1>1, <2>1, <3>1 DEF Found, TypeOK
    <3>3. live' = [live EXCEPT ![offset] = nmemb, ![old] = 0]
      BY <2>1, <3>2 DEF Found
    <3>4. c = offset /\ p = old /\ live'[c] = nmemb
      BY <1>1, <2>1, <3>1, <3>2, <3>3 DEF TypeOK
    <3>5. p + k \in Block /\ c + k \in Block /\ c + k \in Span(offset, nmemb)
      <4>1. p \in Nat /\ k \in Nat /\ live[p] \in Nat /\ p + k \in Span(p, live[p])
        BY <1>1, <2>1, TableLength DEF TypeOK, Span, Block
      <4>2. p + k \in Block
        BY <1>1, <4>1 DEF Consistent
      <4> QED BY <2>1, <3>1, <3>4, <4>1, <4>2, TableLength DEF FreeRun, Span, Block
    <3>6. PICK junk \in Data :
            pool' = [i \in Block |-> IF i \in Span(offset, nmemb)
                                     THEN Copied(i, junk) ELSE pool[i]]
      BY <2>1, <3>2 DEF Found
    <3>7. pool'[c + k] = Copied(c + k, junk)
      BY <3>5, <3>6
    <3>8. p + k = old + ((c + k) - offset)
      BY <2>1, <3>1, <3>4, TableLength DEF Block
    <3>9. Copied(c + k, junk) = pool[p + k]
      BY <3>5, <3>8, Zenon DEF Copied
    <3> QED BY <3>7, <3>9
  <2>2. ASSUME NEW p \in Block, NEW c \in Block, live[c] = 0, live'[c] > 0, ~Found
        PROVE  FALSE
    <3>1. \/ live' = live
          \/ \E ptr \in Block : live' = [live EXCEPT ![ptr] = 0]
      BY <1>1, <2>2 DEF Next, mymalloc, myrealloc, Begin, Scan, NotFound, myfree,
                       Write, vars
    <3> QED BY <1>1, <2>2, <3>1 DEF TypeOK
  <2> QED BY <2>1, <2>2
<1> QED BY <1>1, Invariance, PTL DEF Spec, ReallocKeepsContents

\* Allocating, freeing and moving one region leaves the others' contents alone.
THEOREM OthersUntouched == Spec => OtherRegionsUntouched
<1> DEFINE Kept ==
      memmap' # memmap =>
        \A b \in Block : live'[b] = live[b] =>
          \A i \in Span(b, live[b]) : pool'[i] = pool[i]
<1>1. ASSUME IInv, [Next]_vars PROVE [Kept]_vars
  <2> SUFFICES ASSUME memmap' # memmap, NEW b \in Block, live'[b] = live[b],
                      NEW i \in Span(b, live[b])
               PROVE  pool'[i] = pool[i]
    OBVIOUS
  <2>1. i \in Block /\ memmap[i] = live[b] /\ live[b] # 0 /\ live[b] \in 0..TBL
    BY <1>1, TableLength DEF IInv, Consistent, Span, Block
  <2>2. memrdy
    BY <1>1, <2>1 DEF IInv, Unused
  <2>3. CASE Found
    <3>1. offset \in Block /\ nmemb \in 1..TBL /\ FreeRun(memmap, offset, nmemb)
      BY <1>1, <2>3, FoundRun
    <3>2. i \notin Span(offset, nmemb)
      BY <2>1, <3>1 DEF FreeRun
    <3> QED BY <1>1, <2>1, <2>3, <3>2 DEF Found, IInv, TypeOK
  <2>4. CASE ~Found
    BY <1>1, <2>2, <2>4 DEF Next, mymalloc, myrealloc, Begin, Scan, NotFound,
                            myfree, Write, mem, vars
  <2> QED BY <2>3, <2>4
<1> QED BY <1>1, Invariance, PTL DEF Spec, OtherRegionsUntouched
=============================================================================
