------------------------------- MODULE HeapAbs -------------------------------
(* What malloc, calloc, realloc and free promise their caller, without headers,
   lists or splits: where its blocks lie and what it reads in them.  Blocks never
   overlap, and only free, realloc and a reset take a word away.  *)
EXTENDS Integers

CONSTANTS
  Words,     \* the offsets of words
  Base,      \* the break of an empty heap
  MaxHeap,   \* the break of the largest heap
  Overhead,  \* what a block may take besides the bytes asked for
  Requests,  \* the sizes asked for
  Values     \* what a new block is filled with

VARIABLES
  size,     \* pointer of a block -> the bytes that were asked for
  data,     \* pointer of a block -> the words it holds, by offset
  brk,      \* the break of the heap
  crashed   \* a call wrote through the -1 of mem_sbrk

absVars == <<size, data, brk, crashed>>

Held       == DOMAIN size
Pointers   == {8 * k : k \in 1 .. (MaxHeap \div 8)}
Offsets(n) == {d \in Words : d < n}

Filled(n, v) == [d \in Offsets(n) |-> v]

(* The words of a block that are still there when it is n bytes long. *)
Kept(p, n) == [d \in DOMAIN data[p] \cap Offsets(n) |-> data[p][d]]

(* n bytes at p, apart from the blocks of S. *)
Apart(S, p, n) == \A q \in S : p + n =< q \/ q + size[q] =< p

(* The blocks of S stay where they are and a block of n bytes comes to p. *)
Settle(S, p, n) ==
  /\ Base =< p /\ p + n =< brk' /\ Apart(S, p, n)
  /\ size' = [q \in S \cup {p} |-> IF q = p THEN n ELSE size[q]]

(* The blocks of S keep their words, the one at p has these. *)
Hold(S, p, words) == data' = [q \in S \cup {p} |-> IF q = p THEN words ELSE data[q]]

(* The heap grows for a call by no more than the call needs. *)
Grow(n) == brk' \in brk .. (brk + n + Overhead)

Alloc(n) ==
  /\ Grow(n)
  /\ \E p \in Pointers :
       Settle(Held, p, n) /\ \E v \in Values : Hold(Held, p, Filled(n, v))
  /\ crashed' = crashed

(* realloc: the block stays or moves, with the words that both sizes have. *)
Resize(p, n) ==
  /\ Grow(n)
  /\ \E q \in Pointers : Settle(Held \ {p}, q, n) /\ Hold(Held \ {p}, q, Kept(p, n))
  /\ crashed' = crashed

(* free, and realloc to no bytes. *)
Release(p) ==
  /\ size' = [q \in Held \ {p} |-> size[q]]
  /\ data' = [q \in Held \ {p} |-> data[q]]
  /\ UNCHANGED <<brk, crashed>>

(* A call fails only when the heap could not grow for it. *)
Fail(n) ==
  /\ brk + n + Overhead > MaxHeap
  /\ crashed' = TRUE
  /\ UNCHANGED <<size, data, brk>>

Empty == [p \in {} |-> 0]

Clear == size' = Empty /\ data' = Empty /\ brk' = Base /\ crashed' = crashed

Init == size = Empty /\ data = Empty /\ brk = Base /\ crashed = FALSE

Next ==
  /\ ~crashed
  /\ \/ \E n \in Requests \ {0} : Alloc(n) \/ Fail(n)
     \/ \E p \in Held : Release(p)
     \/ \E p \in Held, n \in Requests \ {0} : Resize(p, n)
     \/ Clear

Spec == Init /\ [][Next]_absVars
=============================================================================
