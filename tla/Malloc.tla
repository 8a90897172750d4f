------------------------------- MODULE Malloc -------------------------------
(***************************************************************************)
(* malloc.c for one memory bank: the management table memmap, the search   *)
(* of my_mem_malloc from the top of the table down, my_mem_free, and       *)
(* mymalloc, myfree, myrealloc above them.  A block holds one value of     *)
(* Data, standing for the bytes the client keeps in it.                    *)
(*                                                                         *)
(* A pointer is the number of the block it points to (the pool and the     *)
(* blocks are 32-byte aligned and the allocator returns block addresses),  *)
(* NULL, or Outside for an address above the pool.                         *)
(***************************************************************************)
EXTENDS Integers, FiniteSets

CONSTANTS
  TBL,       \* memtblsize[memx]
  BLK,       \* memblksize[memx]
  MaxSize,   \* requests are of 0..MaxSize bytes (a bound of the model)
  Data       \* what a client can write into a block; 0 is the cleared block

ASSUME MallocAssumption ==
  /\ TBL \in 1..65535 /\ BLK \in Nat \ {0}   \* memmap holds u16 counts
  /\ MaxSize \in Nat /\ MaxSize <= 2 * TBL * BLK
  /\ 0 \in Data

Block   == 0..(TBL - 1)
NULL    == -1
Outside == TBL

VARIABLES
  memrdy, memmap,     \* mallco_dev
  pool,               \* the contents of the blocks
  pc,                 \* "idle", or "scan" inside my_mem_malloc
  old,                \* the pointer myrealloc was given; NULL in mymalloc
  nmemb,              \* locals of my_mem_malloc
  offset, cmemb,
  ret,                \* what mymalloc or myrealloc returned last
  live                \* history: live[b] blocks were handed out at b

mem    == <<memrdy, memmap, pool>>
search == <<old, nmemb, offset, cmemb>>
vars   == <<mem, pc, search, ret, live>>

Span(b, n) == b..(b + n - 1)

NBlocks(bytes) == bytes \div BLK + (IF bytes % BLK # 0 THEN 1 ELSE 0)

\* The search starts at the last entry.
Top_OnePastEnd == TBL

Top == TBL - 1

\* Setting the table entries b, ..., b+n-1 to v.
Mark_OneShort(map, b, n, v) ==
  [i \in Block |-> IF i \in Span(b, n - 1) THEN v ELSE map[i]]

Mark(map, b, n, v) == [i \in Block |-> IF i \in Span(b, n) THEN v ELSE map[i]]

Init ==
  /\ memrdy = FALSE
  /\ memmap = [b \in Block |-> 0]
  /\ pool = [b \in Block |-> 0]
  /\ pc = "idle"
  /\ old = NULL /\ nmemb = 0 /\ offset = 0 /\ cmemb = 0
  /\ ret = NULL
  /\ live = [b \in Block |-> 0]

\* my_mem_init clears the table and the pool.
my_mem_init ==
  /\ memrdy' = TRUE
  /\ memmap' = [b \in Block |-> 0]
  /\ pool' = [b \in Block |-> 0]

-----------------------------------------------------------------------------
(* my_mem_malloc                                                           *)

Begin(ptr, bytes) ==
  /\ pc = "idle"
  /\ IF memrdy THEN UNCHANGED mem ELSE my_mem_init
  /\ IF bytes = 0
       THEN ret' = NULL /\ UNCHANGED <<pc, search>>
       ELSE /\ pc' = "scan"
            /\ old' = ptr /\ nmemb' = NBlocks(bytes)
            /\ offset' = Top /\ cmemb' = 0
            /\ UNCHANGED ret
  /\ UNCHANGED live

mymalloc(bytes) == Begin(NULL, bytes)

\* The client may only reallocate what it was given.
myrealloc(ptr, bytes) == live[ptr] > 0 /\ Begin(ptr, bytes)

\* cmemb once the entry at offset has been looked at.
RunHere_NoReset == IF memmap[offset] = 0 THEN cmemb + 1 ELSE cmemb

RunHere == IF memmap[offset] = 0 THEN cmemb + 1 ELSE 0

Scan_StopsAtOne ==
  /\ pc = "scan" /\ offset >= 0
  /\ RunHere # nmemb
  /\ cmemb' = RunHere /\ offset' = IF offset = 1 THEN -1 ELSE offset - 1
  /\ UNCHANGED <<mem, pc, old, nmemb, ret, live>>

Scan ==
  /\ pc = "scan" /\ offset >= 0
  /\ RunHere # nmemb
  /\ cmemb' = RunHere /\ offset' = offset - 1
  /\ UNCHANGED <<mem, pc, old, nmemb, ret, live>>

\* mymemcpy of the requested bytes from the old region; an entry above the
\* pool is whatever lies there.
Copied_FromNext(i, junk) ==
  LET from == old + (i - offset) + 1
  IN  IF from \in Block THEN pool[from] ELSE junk

Copied(i, junk) ==
  LET from == old + (i - offset)
  IN  IF from \in Block THEN pool[from] ELSE junk

\* myrealloc copies one block more than was asked for.
Found_CopiesPastEnd ==
  /\ pc = "scan" /\ offset >= 0
  /\ RunHere = nmemb
  /\ ret' = offset /\ pc' = "idle"
  /\ LET marked == Mark(memmap, offset, nmemb, nmemb)
     IN  IF old = NULL
         THEN /\ memmap' = marked
              /\ live' = [live EXCEPT ![offset] = nmemb]
              /\ UNCHANGED pool
         ELSE /\ memmap' = Mark(marked, old, marked[old], 0)
              /\ live' = [live EXCEPT ![offset] = nmemb, ![old] = 0]
              /\ \E junk \in Data :
                   pool' = [i \in Block |-> IF i \in Span(offset, nmemb + 1)
                                            THEN Copied(i, junk) ELSE pool[i]]
  /\ UNCHANGED <<memrdy, search>>

\* Enough free blocks: they are marked; myrealloc moves the contents and
\* frees the old region by the length its first entry holds.
Found ==
  /\ pc = "scan" /\ offset >= 0
  /\ RunHere = nmemb
  /\ ret' = offset /\ pc' = "idle"
  /\ LET marked == Mark(memmap, offset, nmemb, nmemb)
     IN  IF old = NULL
         THEN /\ memmap' = marked
              /\ live' = [live EXCEPT ![offset] = nmemb]
              /\ UNCHANGED pool
         ELSE /\ memmap' = Mark(marked, old, marked[old], 0)
              /\ live' = [live EXCEPT ![offset] = nmemb, ![old] = 0]
              /\ \E junk \in Data :
                   pool' = [i \in Block |-> IF i \in Span(offset, nmemb)
                                            THEN Copied(i, junk) ELSE pool[i]]
  /\ UNCHANGED <<memrdy, search>>

NotFound ==
  /\ pc = "scan" /\ offset < 0
  /\ ret' = NULL /\ pc' = "idle"
  /\ UNCHANGED <<mem, search, live>>

-----------------------------------------------------------------------------
(* myfree.  Callers pass a live pointer, NULL, a pointer they have already *)
(* freed while its block is still free (update_font frees buf twice), or   *)
(* one of another pool.                                                    *)

myfree(ptr) ==
  /\ pc = "idle"
  /\ ptr \in Block => live[ptr] > 0 \/ memmap[ptr] = 0
  /\ IF ptr = NULL THEN UNCHANGED <<mem, live>>
     ELSE IF ~memrdy THEN my_mem_init /\ UNCHANGED live
     ELSE IF ptr \notin Block THEN UNCHANGED <<mem, live>>
     ELSE /\ memmap' = Mark(memmap, ptr, memmap[ptr], 0)
          /\ live' = [live EXCEPT ![ptr] = 0]
          /\ UNCHANGED <<memrdy, pool>>
  /\ UNCHANGED <<pc, search, ret>>

\* my_mem_perused: per cent of the entries that are in use.
my_mem_perused_PerRegion ==
  (100 * Cardinality({b \in Block : live[b] # 0})) \div TBL

my_mem_perused == (100 * Cardinality({b \in Block : memmap[b] # 0})) \div TBL

\* A client writes into a block of its own.
Write(b, i, d) ==
  /\ pc = "idle" /\ i \in Span(b, live[b])
  /\ pool' = [pool EXCEPT ![i] = d]
  /\ UNCHANGED <<memrdy, memmap, pc, search, ret, live>>

-----------------------------------------------------------------------------

Next ==
  \/ \E bytes \in 0..MaxSize : mymalloc(bytes)
  \/ \E ptr \in Block, bytes \in 0..MaxSize : myrealloc(ptr, bytes)
  \/ Scan \/ Found \/ NotFound
  \/ \E ptr \in Block \cup {NULL, Outside} : myfree(ptr)
  \/ \E b, i \in Block, d \in Data : Write(b, i, d)

Spec == Init /\ [][Next]_vars

-----------------------------------------------------------------------------
(* Properties.                                                             *)

\* An entry of the table never exceeds the table, and the search never runs
\* below its first entry.
TypeOK ==
  /\ memrdy \in BOOLEAN
  /\ memmap \in [Block -> 0..TBL] /\ pool \in [Block -> Data]
  /\ pc \in {"idle", "scan"}
  /\ old \in Block \cup {NULL} /\ nmemb \in Nat
  /\ offset \in -1..(TBL - 1) /\ cmemb \in 0..TBL
  /\ ret \in Block \cup {NULL}
  /\ live \in [Block -> 0..TBL]

\* The table is exactly what the clients hold: every block of a region holds
\* the region's length, every other block holds 0.  So myfree(ptr), which
\* reads the length from the table, frees that region and nothing else.
TableMatchesLive ==
  \A b \in Block :
    /\ \A i \in Span(b, live[b]) : i \in Block /\ memmap[i] = live[b]
    /\ memmap[b] # 0 => \E o \in Block : b \in Span(o, live[o])

\* No two regions overlap.
RegionsDisjoint ==
  \A b, c \in Block : b # c => Span(b, live[b]) \cap Span(c, live[c]) = {}

H == INSTANCE Heap WITH
  N <- TBL, size <- live,
  asked <- IF pc = "scan" THEN nmemb ELSE 0,
  from  <- IF pc = "scan" THEN old ELSE NULL

\* The allocator implements Heap: a region handed out lies in a gap, and a
\* request for memory is answered with NULL only if no gap was large enough.
ImplementsHeap == H!Spec

\* myrealloc hands over the contents: as far as both the old and the new
\* region reach, the new one holds what the old one held.
ReallocKeepsContents ==
  [][\A p, c \in Block :
       live[p] > 0 /\ live'[p] = 0 /\ live[c] = 0 /\ live'[c] > 0 =>
         \A k \in 0..(TBL - 1) :
           k < live[p] /\ k < live'[c] => pool'[c + k] = pool[p + k]]_vars

\* Allocating, freeing and moving one region leaves the contents of every
\* other region alone, whatever lies beyond the region that is copied.
OtherRegionsUntouched ==
  [][memmap' # memmap =>
       \A b \in Block : live'[b] = live[b] =>
         \A i \in Span(b, live[b]) : pool'[i] = pool[i]]_vars

\* my_mem_perused reports the blocks the clients hold.
UsageIsWhatClientsHold ==
  my_mem_perused =
    (100 * Cardinality(UNION {Span(b, live[b]) : b \in Block})) \div TBL
=============================================================================
