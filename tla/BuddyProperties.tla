--------------------------- MODULE BuddyProperties ---------------------------
(* What the allocator of Buddy.tla must do. *)
EXTENDS Buddy, FiniteSets, Sequences

Pool == IF rank_num = 0 THEN {} ELSE 0 .. page_num - 1
Span(p, r) == p .. p + Width(r) - 1

(* return_pages holds a block that is in no list between ReturnBegin and Put. *)
Held == IF pc = "merge" THEN {<<block_to_page(block, at), at>>} ELSE {}
Listed == {<<p, rank[p]>> : p \in {q \in Pages : status[q] # UNDEF}}
Blocks == {b \in Listed : pc = "merge" => b[1] # block_to_page(block, at)} \cup Held

Free(r) == {p \in Pages : status[p] = UNUSED /\ rank[p] = r}

(* The variables hold values of their C types, inside the arrays. *)
TypeOK ==
  /\ rank_num \in 0..MaxRank
  /\ count \in [Ranks -> 0..Pow2[MaxRank]]
  /\ bucket \in [Ranks -> Pages \cup {NULL}]
  /\ status \in [Pages -> {UNDEF, UNUSED, USED}]
  /\ rank \in [Pages -> 0..MaxRank]
  /\ index \in [Pages -> Nat]
  /\ prev \in [Pages -> Pages \cup {NULL}]
  /\ next \in [Pages -> Pages \cup {NULL}]
  /\ pc \in {"idle", "split", "merge"}
  /\ want \in 0..MaxRank /\ at \in 0..MaxRank /\ block \in Nat

(* Every page of the pool belongs to one block, whatever was split, merged,
   allocated and returned: no two callers are given a common page, and no page
   is lost. *)
BlocksPartitionPool ==
  /\ \A b \in Blocks : Span(b[1], b[2]) \subseteq Pool
  /\ \A b, c \in Blocks : b # c => Span(b[1], b[2]) \cap Span(c[1], c[2]) = {}
  /\ \A p \in Pool : \E b \in Blocks : p \in Span(b[1], b[2])

(* What next leads to from the head of the list of rank r, NULL after the end,
   for at most as many links as there are pages; and the list itself. *)
Nodes(r) ==
  LET node[k \in 1..Pow2[MaxRank]] ==
        IF k = 1 THEN bucket[r] ELSE IF node[k - 1] = NULL THEN NULL ELSE next[node[k - 1]]
  IN node
Walk(r) ==
  [k \in 1..Cardinality({n \in 1..Pow2[MaxRank] : Nodes(r)[n] # NULL}) |-> Nodes(r)[k]]

(* alloc_pages only splits and takes blocks that exist: the NULL test of
   list_pop, which would return NULL as if it were a page, never fires. *)
SplitsFreeBlocks == pc = "split" => want =< at /\ bucket[at] \in Free(at)

(* The doubly linked list of each rank holds the free blocks of that rank,
   each once, and prev leads back: a block is found by alloc_pages and can be
   unlinked by the merge of its buddy. count, which is kept apart from the
   lists, is the length of the list after every turn of either loop. *)
ListsHoldFreeBlocks ==
  /\ SplitsFreeBlocks
  /\ \A r \in 1..rank_num :
       LET s == Walk(r) IN
       /\ {s[n] : n \in DOMAIN s} = Free(r)
       /\ Len(s) = Cardinality(Free(r)) /\ Len(s) = count[r]
       /\ \A n \in DOMAIN s : prev[s[n]] = IF n = 1 THEN NULL ELSE s[n - 1]

(* Without returns a fresh pool is handed out in the order of addresses, as
   phase 2 of main.c asks: the free lists, one after the other by rank, are in
   the order of addresses, and no step of alloc_pages breaks it. *)
InOrder ==
  \A q, r \in 1..rank_num : \A i \in DOMAIN Walk(q), j \in DOMAIN Walk(r) :
    (q < r \/ (q = r /\ i < j)) => Walk(q)[i] < Walk(r)[j]
AllocKeepsOrder == [][pc = "split" /\ InOrder => InOrder']_vars

(* The promise: the allocator implements BuddyAbs.  The block being returned
   is the caller's no more from ReturnBegin on. *)
Abs == INSTANCE BuddyAbs WITH
  ranks <- rank_num,
  used  <- {<<p, rank[p]>> : p \in {q \in Pages :
              /\ status[q] = USED
              /\ pc = "merge" => q # block_to_page(block, at)}},
  reply <- ret
AbsSpec == Abs!Spec

(* query_page_counts and query_ranks tell the free and the allocated blocks
   from what the callers hold alone: the blocks of each rank that are free and
   part of no larger free block, and the rank of every block at its first
   page. Of a page inside a free block nothing is said: practice_2-1.md:32 has
   it queried by its largest rank, the code answers -EINVAL (buddy.c:215). *)
QueriesTrue ==
  pc = "idle" /\ rank_num # 0 =>
    /\ \A r \in 0..(MaxRank + 1) :
         query_page_counts(r) = IF r \in 1..rank_num
                                THEN Cardinality(Abs!Largest(r)) ELSE EINVAL
    /\ \A p \in Pool : \A r \in Abs!RankAt(p) : query_ranks(p * PageSize) = r

(* practice_2-1.md, return_pages: a pointer that is no page of the pool is
   refused with -EINVAL. *)
OnlyPoolPagesReturned ==
  ret.fn = "return_pages" /\ ret.val = OK => ret.arg \div PageSize \in Pool
=============================================================================
