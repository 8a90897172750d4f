-------------------------------- MODULE Heap --------------------------------
(***************************************************************************)
(* What mymalloc, myfree and myrealloc promise to their callers, without   *)
(* the management table: the regions handed out are disjoint, a request    *)
(* fails only when no gap is large enough, and freeing one region touches  *)
(* no other.  A region is named by its first block.                        *)
(***************************************************************************)
EXTENDS Integers

CONSTANT N          \* blocks in the pool: memtblsize[memx]

Block == 0..(N - 1)
NULL == -1

VARIABLES
  size,     \* size[b]: blocks of the region that starts at b, 0 if none does
  ret,      \* what the last call returned: a first block or NULL
  asked,    \* blocks the call under way wants, 0 when there is none
  from      \* the region it is to move, NULL if it moves none

vars == <<size, ret, asked, from>>

Span(b, n) == b..(b + n - 1)
Used == UNION {Span(b, size[b]) : b \in Block}
Gap(b, n) == b + n <= N /\ \A i \in Span(b, n) : i \notin Used

Init == size = [b \in Block |-> 0] /\ ret = NULL /\ asked = 0 /\ from = NULL

\* A call of mymalloc (b = NULL) or of myrealloc for region b.
Ask(n, b) ==
  /\ asked = 0 /\ asked' = n /\ from' = b
  /\ UNCHANGED <<size, ret>>

\* A request for no memory is answered with NULL.
Nothing == asked = 0 /\ ret' = NULL /\ UNCHANGED <<size, asked, from>>

Answer == asked > 0 /\ asked' = 0 /\ from' = NULL

Alloc ==
  /\ Answer /\ from = NULL
  /\ \E b \in Block :
       /\ Gap(b, asked)
       /\ size' = [size EXCEPT ![b] = asked] /\ ret' = b

\* The new region is found while the old one is still there.
Move ==
  /\ Answer /\ from # NULL
  /\ \E c \in Block :
       /\ Gap(c, asked)
       /\ size' = [size EXCEPT ![c] = asked, ![from] = 0] /\ ret' = c

Fail ==
  /\ Answer
  /\ \A b \in Block : ~Gap(b, asked)
  /\ ret' = NULL /\ UNCHANGED size

Free(b) ==
  /\ asked = 0
  /\ size' = [size EXCEPT ![b] = 0] /\ UNCHANGED <<ret, asked, from>>

Next ==
  \/ \E n \in 1..(2 * N), b \in Block \cup {NULL} : Ask(n, b)
  \/ Nothing \/ Alloc \/ Move \/ Fail
  \/ \E b \in Block : Free(b)

Spec == Init /\ [][Next]_vars
=============================================================================
