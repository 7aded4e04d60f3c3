-------------------------------- MODULE Heap --------------------------------
(***************************************************************************)
(* The segregated-fit allocator of mm-advance.c over the simulated heap of *)
(* memlib.c, and a client that follows the contract of malloc.             *)
(*                                                                         *)
(* An address is the offset of a byte from heap_base; only whole words are *)
(* read or written, so mem maps the multiples of WORD_SIZE below MaxHeap   *)
(* (MAX_HEAP of config.h) to words.  The helpers of the file take the      *)
(* memory they run on and return the memory they leave.  An access outside *)
(* the mapped heap is an error of evaluation, so a run also shows that     *)
(* there is none.                                                          *)
(*                                                                         *)
(* A block, from its pointer p:                                            *)
(*    p-8 header   p-4 next   p .. payload .. p+SIZE-17                    *)
(*    p+SIZE-16 footer   p+SIZE-12 previous   p+SIZE-8 header of the next  *)
(***************************************************************************)
EXTENDS Integers, FiniteSetsExt, Functions

CONSTANTS
  MaxHeap,       \* MAX_HEAP: bytes mem_sbrk can hand out
  MIN_BLK_BITS,  \* blocks of at most 2^MIN_BLK_BITS bytes have rank 0
  MAX_BLK_BITS,  \* blocks above 2^(MAX_BLK_BITS-1) bytes have the last rank
  Requests,      \* the sizes the client asks for
  Tags           \* what the client writes in its blocks, one tag for each

WORD_SIZE == 4
META_SIZE == 4 * WORD_SIZE

\* (mutant) the size is rounded down.
ALIGN_Down(size) == (size \div 8) * 8

ALIGN(size) == ((size + 7) \div 8) * 8

RANK_NUM == MAX_BLK_BITS - MIN_BLK_BITS + 1

\* The offset of the prologue, and the end of every list.
BDR_OFF == ALIGN((RANK_NUM + 2) * WORD_SIZE)

\* No block begins at heap_base, so its offset stands for the null pointer.
NULL == 0

USED   == 1
UNUSED == 2
BORDER == 3

Words == {a \in 0..(MaxHeap - 1) : a % WORD_SIZE = 0}

\* Tags are negative and calloc's zero is 0: no word of data reads as a header
\* or an offset the client could have forged.
ASSUME HeapAssumption ==
  /\ MIN_BLK_BITS \in Nat /\ MAX_BLK_BITS \in Nat /\ MIN_BLK_BITS <= MAX_BLK_BITS
  /\ MaxHeap \in Nat /\ MaxHeap % 8 = 0 /\ MaxHeap >= BDR_OFF + 2 * WORD_SIZE
  /\ Requests \subseteq Nat
  /\ Tags \subseteq {-n : n \in 1..100}

VARIABLES
  mem,      \* the words of the heap
  brk,      \* mem_brk
  owned,    \* the client's blocks: pointer -> [size, tag, kept]
  crashed   \* a write through the -1 of mem_sbrk

vars == <<mem, brk, owned, crashed>>

-----------------------------------------------------------------------------
(* Header words, and the words of a block. *)

ZIP(size, status) == (size \div 8) * 8 + (status % 8)

HDR_PTR(p)    == p - 2 * WORD_SIZE

\* (mutant) the link in the payload, as in the layout of mm.c.
NEX_PTR_InPayload(p) == p

NEX_PTR(p)    == p - WORD_SIZE
SIZE(m, p)    == (m[HDR_PTR(p)] \div 8) * 8
STAT(m, p)    == m[HDR_PTR(p)] % 8
FTR_PTR(m, p) == p + SIZE(m, p) - 4 * WORD_SIZE
PRE_PTR(m, p) == p + SIZE(m, p) - 3 * WORD_SIZE

LIST_NEXT(m, p) == m[NEX_PTR(p)]
LIST_PREV(m, p) == m[PRE_PTR(m, p)]
HEAP_NEXT(m, p) == p + SIZE(m, p)
HEAP_PREV(m, p) == p - (m[p - 4 * WORD_SIZE] \div 8) * 8

BUCK(rank)    == rank * WORD_SIZE
LIST(m, rank) == m[BUCK(rank)]

\* The rank whose list holds the free blocks of this size.
get_rank(size) ==
  LET fits == {i \in MIN_BLK_BITS..(MAX_BLK_BITS - 1) : 2^i >= size}
  IN  (IF fits = {} THEN MAX_BLK_BITS ELSE Min(fits)) - MIN_BLK_BITS

\* (mutant) the footer is forgotten.
Mark_HeaderOnly(m, p, size, status) == [m EXCEPT ![HDR_PTR(p)] = ZIP(size, status)]

\* The two assignments, of header and footer, that always come together.
Mark(m, p, size, status) ==
  [m EXCEPT ![HDR_PTR(p)] = ZIP(size, status),
            ![p + size - 4 * WORD_SIZE] = ZIP(size, status)]

-----------------------------------------------------------------------------
(* The free lists. *)

list_init(m, p) ==
  [m EXCEPT ![NEX_PTR(p)] = BDR_OFF, ![PRE_PTR(m, p)] = BDR_OFF]

\* (mutant) the entry after it keeps its link back.
Unlink_Forward(m, prev, next) ==
  IF STAT(m, prev) # BORDER THEN [m EXCEPT ![NEX_PTR(prev)] = next] ELSE m

\* What list_remove changes in the neighbours of an entry.
Unlink(m, prev, next) ==
  LET m1 == IF STAT(m, prev) # BORDER THEN [m EXCEPT ![NEX_PTR(prev)] = next] ELSE m
  IN  IF STAT(m1, next) # BORDER THEN [m1 EXCEPT ![PRE_PTR(m1, next)] = prev] ELSE m1

list_remove(m, entry, rank) ==
  LET next == LIST_NEXT(m, entry)
      m1   == Unlink(m, LIST_PREV(m, entry), next)
  IN  IF entry = LIST(m1, rank) THEN [m1 EXCEPT ![BUCK(rank)] = next] ELSE m1

list_push(m, entry, rank) ==
  LET list == LIST(m, rank)
      m1   == IF STAT(m, list) # BORDER THEN [m EXCEPT ![PRE_PTR(m, list)] = entry] ELSE m
  IN  [m1 EXCEPT ![NEX_PTR(entry)]     = list,
                 ![PRE_PTR(m1, entry)] = BDR_OFF,
                 ![BUCK(rank)]         = entry]

-----------------------------------------------------------------------------
(* Growing, splitting, merging and placing blocks. *)

mem_sbrk_Fails(incr) == brk + incr > MaxHeap

\* The border goes to the new end of the heap; the block begins at the old one.
extend(m, size) == [m EXCEPT ![HDR_PTR(brk + size)] = ZIP(0, BORDER)]

split(m, p, size) ==
  LET rest == SIZE(m, p) - size
  IN  list_push(Mark(m, p + size, rest, UNUSED), p + size, get_rank(rest))

coalesce(m, pred, succ, sel) ==
  LET m1   == IF sel
              THEN list_remove(list_remove(m, succ, get_rank(SIZE(m, succ))),
                               pred, get_rank(SIZE(m, pred)))
              ELSE m
      size == SIZE(m, pred) + SIZE(m, succ)
  IN  list_push(Mark(m1, pred, size, UNUSED), pred, get_rank(size))

place(m, p, size, sel) ==
  LET orgsize == SIZE(m, p)
      m1      == IF sel THEN m ELSE list_remove(m, p, get_rank(orgsize))
  IN  IF orgsize - size > META_SIZE
      THEN Mark(split(m1, p, size), p, size, USED)
      ELSE Mark(m1, p, orgsize, USED)

\* (mutant) an exact fit is passed over.
Fits_Tight(m, p, size) == SIZE(m, p) > size

Fits(m, p, size) == SIZE(m, p) >= size

\* No more blocks than that have room.
MaxBlocks == MaxHeap \div META_SIZE

\* The entries of a list from its head, and the border from its end on.
Entries(m, rank) ==
  LET entry[n \in 0..MaxBlocks] ==
        IF n = 0 THEN LIST(m, rank)
        ELSE LET p == entry[n - 1] IN IF STAT(m, p) = BORDER THEN p ELSE LIST_NEXT(m, p)
  IN  entry

\* First fit: the walk of the list of one rank.
find_fit(m, size, rank) ==
  LET entry == Entries(m, rank)
      fits  == {n \in 0..MaxBlocks : STAT(m, entry[n]) # BORDER /\ Fits(m, entry[n], size)}
  IN  IF fits = {} THEN NULL ELSE entry[Min(fits)]

-----------------------------------------------------------------------------
(* What the calls leave and answer, as [mem, brk, ptr, crashed]. *)

Answer(m, b, p) == [mem |-> m, brk |-> b, ptr |-> p, crashed |-> FALSE]

\* extend tests for NULL what mem_sbrk answers, and mem_sbrk fails with -1:
\* malloc writes its header through it.
malloc(size) ==
  LET asize == ALIGN(size + META_SIZE)
      ranks == {r \in get_rank(asize)..(RANK_NUM - 1) : find_fit(mem, asize, r) # NULL}
      rank  == Min(ranks)
      fit   == find_fit(mem, asize, rank)
  IN  CASE size = 0 -> Answer(mem, brk, NULL)
        [] size # 0 /\ ranks # {} ->
             Answer(place(list_remove(mem, fit, rank), fit, asize, TRUE), brk, fit)
        [] size # 0 /\ ranks = {} /\ mem_sbrk_Fails(asize) ->
             [Answer(mem, brk, NULL) EXCEPT !.crashed = TRUE]
        [] OTHER ->
             Answer(list_init(Mark(extend(mem, asize), brk, asize, USED), brk),
                    brk + asize, brk)

\* free merges the block with the next one first, then with the previous one.
merge_next(m, p) ==
  LET next == HEAP_NEXT(m, p)
  IN  IF STAT(m, next) = UNUSED THEN coalesce(m, p, next, TRUE) ELSE m

merge_prev(m, p) ==
  LET prev == HEAP_PREV(m, p)
  IN  IF STAT(m, prev) = UNUSED THEN coalesce(m, prev, p, TRUE) ELSE m

free(m, p) ==
  LET size == SIZE(m, p)
      m1   == Mark(list_push(m, p, get_rank(size)), p, size, UNUSED)
  IN  IF p = NULL \/ STAT(m, p) # USED THEN m ELSE merge_prev(merge_next(m1, p), p)

\* The words of n bytes from p.
Span(p, n) == {a \in Words : a >= p /\ a < p + n}

memset(m, p, n, value) == [a \in Words |-> IF a \in Span(p, n) THEN value ELSE m[a]]

\* memcpy of realloc reads past the old block: what it finds there is of no
\* block of the client, and the new words it would write keep their value.
memcpy(m, new, old, n) ==
  LET payload == SIZE(m, old) - META_SIZE
  IN  [a \in Words |-> IF a \in Span(new, IF n < payload THEN n ELSE payload)
                       THEN m[old + (a - new)] ELSE m[a]]

realloc(p, size) ==
  LET asize == ALIGN(size + META_SIZE)
      next  == HEAP_NEXT(mem, p)
      alone == list_remove(mem, next, get_rank(SIZE(mem, next)))
      new   == malloc(size)
  IN  CASE size = 0 -> Answer(free(mem, p), brk, NULL)
        [] size # 0 /\ p = NULL -> new
        [] size # 0 /\ p # NULL /\ SIZE(mem, p) >= asize -> Answer(mem, brk, p)
        [] /\ size # 0 /\ p # NULL /\ SIZE(mem, p) < asize
           /\ STAT(mem, next) = UNUSED
           /\ SIZE(mem, p) + SIZE(mem, next) >= asize ->
             Answer(place(coalesce(alone, p, next, FALSE), p, asize, FALSE), brk, p)
        [] OTHER ->
             IF new.crashed THEN new
             ELSE [new EXCEPT !.mem = free(memcpy(@, new.ptr, p, size), p)]

\* memset comes after malloc, whatever malloc answers; of no bytes it is nothing.
calloc(size) ==
  LET new == malloc(size)
  IN  [new EXCEPT !.mem = memset(@, new.ptr, IF new.crashed THEN 0 ELSE size, 0)]

\* The prologue and the epilogue, on memory that is not cleared.
mm_init(m) ==
  [a \in Words |->
     CASE a < RANK_NUM * WORD_SIZE -> BDR_OFF
       [] a = HDR_PTR(BDR_OFF)     -> ZIP(2 * WORD_SIZE, BORDER)
       [] a = BDR_OFF              -> ZIP(0, BORDER)
       [] OTHER                    -> m[a]]

-----------------------------------------------------------------------------
(* The client: it frees what it owns once, writes only in its blocks, and  *)
(* resets the heap between two traces as the driver does.                  *)

Init ==
  /\ mem = mm_init([a \in Words |-> 0])
  /\ brk = BDR_OFF + 2 * WORD_SIZE
  /\ owned = [p \in {} |-> 0]
  /\ crashed = FALSE

FreeTags == Tags \ {owned[p].tag : p \in DOMAIN owned}

Own(o, p, size, tag) ==
  [q \in DOMAIN o \cup {p} |->
     IF q = p THEN [size |-> size, tag |-> tag, kept |-> size] ELSE o[q]]

\* The client fills a new block, from malloc or from realloc of NULL, with its tag.
Malloc(size) ==
  \E r \in {malloc(size), realloc(NULL, size)} :
    /\ ~crashed
    /\ FreeTags # {}
    /\ brk' = r.brk /\ crashed' = r.crashed
    /\ IF r.ptr = NULL
       THEN mem' = r.mem /\ UNCHANGED owned
       ELSE /\ mem' = memset(r.mem, r.ptr, size, Max(FreeTags))
            /\ owned' = Own(owned, r.ptr, size, Max(FreeTags))

\* It reads the zeroes of a block from calloc and leaves them. (No program under src calls
\* mm_calloc; a client may.)
Calloc(size) ==
  LET r == calloc(size)
  IN  /\ ~crashed
      /\ mem' = r.mem /\ brk' = r.brk /\ crashed' = r.crashed
      /\ owned' = IF r.ptr = NULL THEN owned ELSE Own(owned, r.ptr, size, 0)

Free(p) ==
  /\ ~crashed
  /\ mem' = free(mem, p)
  /\ owned' = [q \in DOMAIN owned \ {p} |-> owned[q]]
  /\ UNCHANGED <<brk, crashed>>

\* The bytes below both sizes are the ones realloc keeps.
Realloc(p, size) ==
  LET r    == realloc(p, size)
      rest == [q \in DOMAIN owned \ {p} |-> owned[q]]
      kept == Min({size, owned[p].kept})
  IN  /\ ~crashed
      /\ mem' = r.mem /\ brk' = r.brk /\ crashed' = r.crashed
      /\ owned' = CASE r.crashed -> owned
                    [] r.ptr = NULL /\ ~r.crashed -> rest
                    [] OTHER -> [Own(rest, r.ptr, size, owned[p].tag)
                                   EXCEPT ![r.ptr].kept = kept]

\* mem_reset_brk and mm_init.
Reset ==
  /\ ~crashed
  /\ mem' = mm_init(mem)
  /\ brk' = BDR_OFF + 2 * WORD_SIZE
  /\ owned' = [p \in {} |-> 0]
  /\ UNCHANGED crashed

Next ==
  \/ \E size \in Requests : Malloc(size)
  \/ \E size \in Requests : Calloc(size)
  \/ \E p \in DOMAIN owned \cup {NULL} : Free(p)
  \/ \E p \in DOMAIN owned, size \in Requests : Realloc(p, size)
  \/ Reset

Spec == Init /\ [][Next]_vars
=============================================================================
