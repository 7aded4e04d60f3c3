------------------------------- MODULE MCHeap -------------------------------
(* The allocator on a small heap with two ranks of blocks. *)
EXTENDS HeapProperties

\* One tag for each block from malloc, besides the zeroes of calloc.
MCTags == {-1, -2}

\* The words a later step or a property can read before a step writes them: not
\* the payload of a free block, the links of a used one, nor what is past brk.
Live ==
  {BUCK(rank) : rank \in 0..(RANK_NUM - 1)} \cup {HDR_PTR(BDR_OFF), HDR_PTR(brk)}
  \cup UNION {{HDR_PTR(p), FTR_PTR(mem, p)} : p \in Blocks}
  \cup UNION {{NEX_PTR(p), PRE_PTR(mem, p)} : p \in FreeBlocks}
  \cup UNION {Span(p, owned[p].kept) : p \in DOMAIN owned}

\* Two states that differ in dead words alone have the same futures.
LiveView == <<[a \in Live |-> mem[a]], brk, owned, crashed>>
=============================================================================
