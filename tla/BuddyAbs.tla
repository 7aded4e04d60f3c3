------------------------------ MODULE BuddyAbs ------------------------------
(* What buddy.h promises of the page allocator, without free lists, splits
   or merges: the set of blocks the callers hold and the answer of the last
   call.  A block is a pair <<first page, rank>> and spans Width(rank) pages;
   a pointer is its byte offset from base_ptr.  *)
EXTENDS Integers

CONSTANTS Pow2, PageSize, PgCounts, RankArgs, PtrArgs

VARIABLES ranks,  \* rank of the whole pool, 0 before init_page
          used,   \* the blocks that are allocated
          reply   \* function, argument and result of the last call

absVars == <<ranks, used, reply>>

OK     == 0
EINVAL == -22
ENOSPC == -28

Width(r)   == Pow2[r - 1]
Span(p, r) == p .. p + Width(r) - 1
PoolPages  == 0 .. Width(ranks) - 1

(* Aligned blocks of rank r of which the callers hold no page. *)
FreeBlocks(r) ==
  {p \in PoolPages : /\ p % Width(r) = 0
                     /\ \A u \in used : Span(p, r) \cap Span(u[1], u[2]) = {}}

(* The free blocks of rank r that are part of no larger free block: what
   query_page_counts counts. *)
Largest(r) ==
  {p \in FreeBlocks(r) :
     r < ranks => p - (p % Width(r + 1)) \notin FreeBlocks(r + 1)}

(* The blocks of query_ranks: allocated, or free and as large as can be. *)
RankAt(p) == {r \in 1..ranks : <<p, r>> \in used \/ p \in Largest(r)}

Answer(fn, arg, val) == reply' = [fn |-> fn, arg |-> arg, val |-> val]

Init == ranks = 0 /\ used = {} /\ reply = [fn |-> "none", arg |-> 0, val |-> OK]

InitPage(n) ==
  /\ ranks' \in {r \in DOMAIN Pow2 \ {0} : Pow2[r - 1] =< n /\ n < Pow2[r]}
  /\ used' = {}
  /\ Answer("init_page", n, OK)

Alloc(r) ==
  /\ \/ /\ r \notin 1..ranks
        /\ used' = used /\ Answer("alloc_pages", r, EINVAL)
     \/ /\ r \in 1..ranks /\ FreeBlocks(r) = {}
        /\ used' = used /\ Answer("alloc_pages", r, ENOSPC)
     \/ /\ r \in 1..ranks
        /\ \E p \in FreeBlocks(r) :
             used' = used \cup {<<p, r>>} /\ Answer("alloc_pages", r, p * PageSize)
  /\ ranks' = ranks

Return(ptr) ==
  /\ \/ \E u \in used : /\ u[1] * PageSize = ptr
                        /\ used' = used \ {u}
                        /\ Answer("return_pages", ptr, OK)
     \/ /\ \A u \in used : u[1] * PageSize # ptr
        /\ used' = used /\ Answer("return_pages", ptr, EINVAL)
  /\ ranks' = ranks

Next == \/ \E n \in PgCounts : InitPage(n)
        \/ ranks # 0 /\ \E r \in RankArgs : Alloc(r)
        \/ ranks # 0 /\ \E ptr \in PtrArgs : Return(ptr)

Spec == Init /\ [][Next]_absVars
=============================================================================
