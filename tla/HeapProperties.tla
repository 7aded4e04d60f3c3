--------------------------- MODULE HeapProperties ---------------------------
(* What the heap of Heap.tla must be for malloc to keep its promises. *)
EXTENDS Heap

FirstBlock == BDR_OFF + 2 * WORD_SIZE

\* The blocks met by HEAP_NEXT from the prologue, up to the end of the heap.
Blocks ==
  LET block[n \in 0..MaxBlocks] ==
        IF n = 0 THEN FirstBlock
        ELSE LET p == block[n - 1]
             IN  IF p = brk \/ SIZE(mem, p) = 0 \/ HEAP_NEXT(mem, p) > brk THEN p ELSE HEAP_NEXT(mem, p)
  IN  {block[n] : n \in 0..MaxBlocks} \ {brk}

FreeBlocks == {p \in Blocks : STAT(mem, p) = UNUSED}

\* The words of the heap are words, the pointers of the client aligned.
TypeOK ==
  /\ mem \in [Words -> Tags \cup Nat]
  /\ brk \in FirstBlock..MaxHeap /\ brk % 8 = 0
  /\ \A p \in DOMAIN owned : p % 8 = 0 /\ owned[p].kept <= owned[p].size
  /\ crashed \in BOOLEAN

\* The blocks tile the heap between prologue and epilogue, each with a footer
\* that repeats its header: what HEAP_NEXT and HEAP_PREV of free rely on.
HeapTiles ==
  /\ TypeOK
  /\ ~crashed =>
       /\ STAT(mem, brk) = BORDER
       /\ \A p \in Blocks :
            /\ HEAP_NEXT(mem, p) \in Blocks \cup {brk}
            /\ SIZE(mem, p) > META_SIZE
            /\ STAT(mem, p) \in {USED, UNUSED}
            /\ mem[FTR_PTR(mem, p)] = mem[HDR_PTR(p)]

\* What the client wrote, or the zeroes of calloc, is still in its block below
\* the smallest size the block ever had, wherever realloc moved it.
DataKept ==
  \A p \in DOMAIN owned : \A a \in Span(p, owned[p].kept) : mem[a] = owned[p].tag

\* The used blocks are the ones the client owns, each large enough for what was
\* asked and with its data: no block is lost, overwritten or handed out twice by
\* split, merge or realloc.
UsedAreOwned ==
  ~crashed =>
    /\ {p \in Blocks : STAT(mem, p) = USED} = DOMAIN owned
    /\ \A p \in DOMAIN owned : SIZE(mem, p) >= owned[p].size + META_SIZE
    /\ DataKept

\* What find_fit meets in the list of a rank.
Listed(rank) == {Entries(mem, rank)[n] : n \in 0..MaxBlocks} \ {BDR_OFF}

\* The list of each rank holds the free blocks of that rank and no others, and
\* leads back by LIST_PREV: list_remove, which trusts the rank its caller gives
\* it, always finds the entry in that list.  No two neighbours are both free, after
\* any order of frees, splits and reallocations.
FreeBlocksListed ==
  ~crashed =>
    /\ \A p \in FreeBlocks : HEAP_NEXT(mem, p) \notin FreeBlocks
    /\ \A rank \in 0..(RANK_NUM - 1) :
         /\ Entries(mem, rank)[MaxBlocks] = BDR_OFF
         /\ Listed(rank) = {p \in FreeBlocks : get_rank(SIZE(mem, p)) = rank}
         /\ \A p \in Listed(rank) :
              IF LIST(mem, rank) = p
              THEN LIST_PREV(mem, p) = BDR_OFF
              ELSE LIST_NEXT(mem, LIST_PREV(mem, p)) = p

\* The heap grows only when no free block is large enough for the request: the
\* ranks malloc skips hold none, and realloc asks for no more than it needs.  And
\* it crashes only when free blocks and rest of the heap are too small for a request.
GrowsWhenFull ==
  [][/\ brk' > brk => \A p \in FreeBlocks : SIZE(mem, p) < brk' - brk
     /\ crashed' => \E n \in Requests :
          /\ brk + ALIGN(n + META_SIZE) > MaxHeap
          /\ \A p \in FreeBlocks : SIZE(mem, p) < ALIGN(n + META_SIZE)]_vars

\* The bytes the client asked for, and the words it reads in its blocks.
Sizes(o)       == [p \in DOMAIN o |-> o[p].size]
Contents(m, o) == [p \in DOMAIN o |-> [d \in Span(0, o[p].kept) |-> m[p + d]]]

\* The promise to the client: the allocator implements HeapAbs.  What the client
\* reads in its blocks is in the heap, where any call could overwrite it.
Abs == INSTANCE HeapAbs WITH
  Base     <- FirstBlock,
  Overhead <- META_SIZE + 7,
  Values   <- Tags \cup {0},
  size     <- Sizes(owned),
  data     <- Contents(mem, owned)
AbsSpec == Abs!Spec
=============================================================================
