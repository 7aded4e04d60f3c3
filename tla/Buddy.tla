-------------------------------- MODULE Buddy --------------------------------
(* src/practice-2/practice_2-1/buddy.c: the buddy allocator.  The fields of a
   page's list_t are the functions status, rank, index, prev and next; a
   pointer to a page's list_t is the page's number, a pointer into the pool
   its byte offset from base_ptr.  A call is a sequence of steps, one for each
   turn of the split loop of alloc_pages and of the merge loop of return_pages:
   pc says which loop the call is in, and no call begins before it ends.  *)
EXTENDS Integers

CONSTANTS
  MaxRank,   \* MAX_RANK_NUM
  PageSize,  \* PAGE_SIZE
  Pow2,      \* Pow2[k] is 1 << k
  PgCounts,  \* pgcount of the calls of init_page
  RankArgs,  \* rank of the calls of alloc_pages
  PtrArgs,   \* pointers given to return_pages
  Shrinks    \* may init_page be called again for a smaller pool?

ASSUME SizeAssumption ==
  /\ MaxRank \in Nat /\ MaxRank >= 1
  /\ PageSize \in Nat /\ PageSize >= 1
ASSUME ArgAssumption ==
  /\ RankArgs \subseteq Int /\ PtrArgs \subseteq Int
  /\ PgCounts \subseteq Nat
  /\ \A n \in PgCounts : 1 =< n /\ n < Pow2[MaxRank]
  /\ Shrinks \in BOOLEAN
ASSUME ShiftAssumption ==
  /\ Pow2 \in [0..MaxRank -> Nat \ {0}]
  /\ Pow2[0] = 1 /\ Pow2[1] = 2
  /\ \A a, b \in 0..MaxRank : a + b =< MaxRank => Pow2[a + b] = Pow2[a] * Pow2[b]

NULL   == -1
OK     == 0
EINVAL == -22
ENOSPC == -28

UNDEF  == 0
UNUSED == 1
USED   == 2

Ranks == 1 .. MaxRank
Pages == 0 .. Pow2[MaxRank] - 1

VARIABLES
  rank_num, count, bucket,
  status, rank, index, prev, next,
  pc,     \* "idle", or the loop a call is in: "split", "merge"
  want,   \* alloc_pages: the rank asked for
  at,     \* alloc_pages: split_rank;  return_pages: rank
  block,  \* return_pages: index
  ret     \* the last call: its function, argument and result

lists == <<bucket, prev, next>>
call  == <<pc, want, at, block>>
vars  == <<rank_num, count, lists, status, rank, index, call, ret>>

-----------------------------------------------------------------------------
(* The list macros, on L = the buckets and the links. *)

\* (node)->field = value, under the test node # NULL.
Store(f, node, value) == IF node = NULL THEN f ELSE [f EXCEPT ![node] = value]

Lists == [bucket |-> bucket, prev |-> prev, next |-> next]

list_remove_KeepsHead(L, r, node) ==
  [bucket |-> L.bucket,
   prev |-> Store(L.prev, L.next[node], L.prev[node]),
   next |-> Store(L.next, L.prev[node], L.next[node])]

list_remove(L, r, node) ==
  [bucket |-> IF node = L.bucket[r] THEN [L.bucket EXCEPT ![r] = L.next[node]]
                                    ELSE L.bucket,
   prev |-> Store(L.prev, L.next[node], L.prev[node]),
   next |-> Store(L.next, L.prev[node], L.next[node])]

list_pop_KeepsPrev(L, r) ==
  [bucket |-> [L.bucket EXCEPT ![r] = L.next[L.bucket[r]]],
   prev |-> L.prev,
   next |-> L.next]

\* The macro's return for an empty list is left out: SplitsFreeBlocks.
list_pop(L, r) ==
  [bucket |-> [L.bucket EXCEPT ![r] = L.next[L.bucket[r]]],
   prev |-> Store(L.prev, L.next[L.bucket[r]], NULL),
   next |-> L.next]

list_push(L, r, node) ==
  [bucket |-> [L.bucket EXCEPT ![r] = node],
   prev |-> Store([L.prev EXCEPT ![node] = NULL], L.bucket[r], node),
   next |-> [L.next EXCEPT ![node] = L.bucket[r]]]

SetLists(L) == bucket' = L.bucket /\ prev' = L.prev /\ next' = L.next

-----------------------------------------------------------------------------
(* Blocks: an index is a node of the binary tree of blocks, numbered as in a
   heap. *)

page_num == Pow2[rank_num - 1]
Width(r) == Pow2[r - 1]

PARENT(n) == (n - 1) \div 2
CHILD_Swapped(n, sel) == n * 2 + (1 - sel) + 1

CHILD(n, sel) == n * 2 + sel + 1
BUDDY(n) == IF n % 2 = 1 THEN n + 1 ELSE n - 1

block_to_page(b, r) == (b - Pow2[rank_num - r] + 1) * Width(r)

is_valid_ptr(ptr) ==
  /\ ptr >= 0
  /\ ptr % PageSize = 0
  /\ ptr \div PageSize =< page_num

ptr_to_page(ptr) == ptr \div PageSize

query_ranks(ptr) ==
  IF is_valid_ptr(ptr) /\ status[ptr_to_page(ptr)] # UNDEF
  THEN rank[ptr_to_page(ptr)] ELSE EINVAL

query_page_counts(r) == IF r \in 1..rank_num THEN count[r] ELSE EINVAL

-----------------------------------------------------------------------------

Answer(fn, arg, val) == ret' = [fn |-> fn, arg |-> arg, val |-> val]

\* The static variables are zero; rank_num = 0 says that init_page was not called.
Init ==
  /\ rank_num = 0
  /\ count  = [r \in Ranks |-> 0]
  /\ bucket = [r \in Ranks |-> NULL]
  /\ status = [p \in Pages |-> UNDEF]
  /\ rank   = [p \in Pages |-> 0]
  /\ index  = [p \in Pages |-> 0]
  /\ prev   = [p \in Pages |-> NULL]
  /\ next   = [p \in Pages |-> NULL]
  /\ pc = "idle" /\ want = 0 /\ at = 0 /\ block = 0
  /\ ret = [fn |-> "none", arg |-> 0, val |-> OK]

Begin(loop, w, a, b) == pc' = loop /\ want' = w /\ at' = a /\ block' = b
End == Begin("idle", 0, 0, 0)

\* rank_num = _log2(pgcount) + 1: the pages past the last power of two are lost.
IsRankNum(n, pgcount) == Pow2[n - 1] =< pgcount /\ pgcount < Pow2[n]

init_page(pgcount) ==
  /\ pc = "idle"
  /\ \E n \in Ranks :
       /\ IsRankNum(n, pgcount)
       /\ Shrinks \/ rank_num =< n
       /\ rank_num' = n
       /\ count'  = [r \in Ranks |-> IF r = n THEN 1 ELSE IF r < n THEN 0 ELSE count[r]]
       /\ bucket' = [r \in Ranks |-> IF r = n THEN 0 ELSE IF r < n THEN NULL ELSE bucket[r]]
       /\ status' = [p \in Pages |-> IF p = 0 THEN UNUSED
                                     ELSE IF p < pgcount THEN UNDEF ELSE status[p]]
       /\ rank'   = [p \in Pages |-> IF p = 0 THEN n
                                     ELSE IF p < pgcount THEN 0 ELSE rank[p]]
       /\ index'  = [p \in Pages |-> IF p < pgcount THEN 0 ELSE index[p]]
       /\ prev'   = [p \in Pages |-> IF p < pgcount THEN NULL ELSE prev[p]]
       /\ next'   = [p \in Pages |-> IF p < pgcount THEN NULL ELSE next[p]]
  /\ Answer("init_page", pgcount, OK)
  /\ UNCHANGED call

-----------------------------------------------------------------------------
(* alloc_pages *)

AllocRefuse(r) ==
  /\ pc = "idle" /\ rank_num # 0
  /\ \/ r \notin 1..rank_num /\ Answer("alloc_pages", r, EINVAL)
     \/ /\ r \in 1..rank_num
        /\ \A u \in r..rank_num : bucket[u] = NULL
        /\ Answer("alloc_pages", r, ENOSPC)
  /\ UNCHANGED <<rank_num, count, lists, status, rank, index, call>>

AllocScan(r) ==
  /\ pc = "idle" /\ rank_num # 0
  /\ r \in 1..rank_num
  /\ \E unused_rank \in r..rank_num :
       /\ bucket[unused_rank] # NULL
       /\ \A u \in r..(unused_rank - 1) : bucket[u] = NULL
       /\ Begin("split", r, unused_rank, 0)
  /\ UNCHANGED <<rank_num, count, lists, status, rank, index, ret>>

\* One turn of the loop: the first block of rank at becomes two of rank at - 1.
Split ==
  /\ pc = "split" /\ at > want
  /\ LET r == at - 1
         parent == bucket[at]
         rchild == CHILD(index[parent], 1)
         lchild == CHILD(index[parent], 0)
         rmeta == block_to_page(rchild, r)
         lmeta == block_to_page(lchild, r)
     IN /\ status' = [status EXCEPT ![parent] = UNDEF, ![rmeta] = UNUSED, ![lmeta] = UNUSED]
        /\ rank'   = [rank EXCEPT ![rmeta] = r, ![lmeta] = r]
        /\ index'  = [index EXCEPT ![rmeta] = rchild, ![lmeta] = lchild]
        /\ SetLists(list_push(list_push(list_pop(Lists, at), r, rmeta), r, lmeta))
        /\ count'  = [count EXCEPT ![at] = @ - 1, ![r] = @ + 2]
        /\ at' = r
  /\ UNCHANGED <<rank_num, pc, want, block, ret>>

Take ==
  /\ pc = "split" /\ at = want
  /\ LET page == bucket[want]
     IN /\ SetLists(list_pop(Lists, want))
        /\ status' = [status EXCEPT ![page] = USED]
        /\ count'  = [count EXCEPT ![want] = @ - 1]
        /\ Answer("alloc_pages", want, block_to_page(index[page], want) * PageSize)
  /\ End
  /\ UNCHANGED <<rank_num, rank, index>>

-----------------------------------------------------------------------------
(* return_pages *)

IsAllocated_Listed(ptr) == is_valid_ptr(ptr) /\ status[ptr_to_page(ptr)] # UNDEF

IsAllocated(ptr) == is_valid_ptr(ptr) /\ status[ptr_to_page(ptr)] = USED

ReturnRefuse(ptr) ==
  /\ pc = "idle" /\ rank_num # 0
  /\ ~IsAllocated(ptr)
  /\ Answer("return_pages", ptr, EINVAL)
  /\ UNCHANGED <<rank_num, count, lists, status, rank, index, call>>

\* The result is noted where the call begins: from here on it is OK.
ReturnBegin(ptr) ==
  /\ pc = "idle" /\ rank_num # 0
  /\ IsAllocated(ptr)
  /\ Begin("merge", 0, rank[ptr_to_page(ptr)], index[ptr_to_page(ptr)])
  /\ Answer("return_pages", ptr, OK)
  /\ UNCHANGED <<rank_num, count, lists, status, rank, index>>

Merges_AnyRank ==
  /\ at < rank_num
  /\ status[block_to_page(BUDDY(block), at)] = UNUSED

\* The loop goes on: node and its buddy are one block.
Merges ==
  /\ at < rank_num
  /\ LET buddy == block_to_page(BUDDY(block), at)
     IN rank[buddy] = at /\ status[buddy] = UNUSED

Merge_KeepsCount ==
  /\ pc = "merge" /\ Merges
  /\ LET node  == block_to_page(block, at)
         buddy == block_to_page(BUDDY(block), at)
     IN /\ status' = [status EXCEPT ![node] = UNDEF, ![buddy] = UNDEF]
        /\ SetLists(list_remove(Lists, at, buddy))
  /\ at' = at + 1
  /\ block' = PARENT(block)
  /\ UNCHANGED <<rank_num, count, rank, index, pc, want, ret>>

Merge ==
  /\ pc = "merge" /\ Merges
  /\ LET node  == block_to_page(block, at)
         buddy == block_to_page(BUDDY(block), at)
     IN /\ status' = [status EXCEPT ![node] = UNDEF, ![buddy] = UNDEF]
        /\ SetLists(list_remove(Lists, at, buddy))
        /\ count' = [count EXCEPT ![at] = @ - 1]
  /\ at' = at + 1
  /\ block' = PARENT(block)
  /\ UNCHANGED <<rank_num, rank, index, pc, want, ret>>

Put_KeepsCount ==
  /\ pc = "merge" /\ ~Merges
  /\ LET node == block_to_page(block, at)
     IN /\ status' = [status EXCEPT ![node] = UNUSED]
        /\ rank'   = [rank EXCEPT ![node] = at]
        /\ index'  = [index EXCEPT ![node] = block]
        /\ SetLists(list_push(Lists, at, node))
  /\ End
  /\ UNCHANGED <<rank_num, count, ret>>

Put ==
  /\ pc = "merge" /\ ~Merges
  /\ LET node == block_to_page(block, at)
     IN /\ status' = [status EXCEPT ![node] = UNUSED]
        /\ rank'   = [rank EXCEPT ![node] = at]
        /\ index'  = [index EXCEPT ![node] = block]
        /\ SetLists(list_push(Lists, at, node))
        /\ count' = [count EXCEPT ![at] = @ + 1]
  /\ End
  /\ UNCHANGED <<rank_num, ret>>

-----------------------------------------------------------------------------

Next ==
  \/ \E n \in PgCounts : init_page(n)
  \/ \E r \in RankArgs : AllocRefuse(r) \/ AllocScan(r)
  \/ Split
  \/ Take
  \/ \E ptr \in PtrArgs : ReturnRefuse(ptr) \/ ReturnBegin(ptr)
  \/ Merge
  \/ Put

Spec == Init /\ [][Next]_vars
=============================================================================
