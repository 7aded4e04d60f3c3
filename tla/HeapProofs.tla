----------------------------- MODULE HeapProofs -----------------------------
(***************************************************************************)
(* Proofs about the allocator of mm-advance.c, for any heap, any number of *)
(* lists, any requests and any tags.                                       *)
(*                                                                         *)
(* The words of the heap say what the heap is only through its headers and *)
(* links, which every call rewrites.  The invariant therefore says that    *)
(* there are blocks B and sizes z of which the memory is the image (HeapAt *)
(* below), and each helper of the file is proved to turn the image of one  *)
(* such heap into the image of another: list_push and list_remove change   *)
(* what is listed, split, coalesce and extend change B and z, free, malloc *)
(* and realloc are made of these.  Between two calls every block that is   *)
(* not in use is listed and no two neighbours are free (Tidy).             *)
(***************************************************************************)
EXTENDS HeapProperties, FiniteSetTheorems, WellFoundedInduction, TLAPS

-----------------------------------------------------------------------------
(* Numbers, sizes and ranks.                                               *)

\* The lists, one for each rank.
Ranks == 0..(RANK_NUM - 1)

\* A set of numbers has a least one: find_fit and malloc take the first fit and the
\* first rank.
LEMMA Least ==
  ASSUME NEW S \in SUBSET Nat, S # {}
  PROVE  \E n \in S : \A m \in S : n =< m
<1> DEFINE R == {ss \in Nat \X Nat : ss[1] < ss[2]}
<1>1. IsWellFoundedOn(R, Nat)
  BY NatLessThanWellFounded DEF OpToRel
<1>2. \A m, n \in Nat : m < n => <<m, n>> \in R
  OBVIOUS
<1>3. \E n \in S : \A m \in S : ~ (<<m, n>> \in R)
  <2> HIDE DEF R
  <2> QED BY <1>1, WFMin
<1>4. PICK n \in S : \A m \in S : ~ (<<m, n>> \in R)
  BY <1>3
<1> HIDE DEF R
<1>5. \A m \in S : ~ (m < n)
  BY <1>2, <1>4
<1> QED BY <1>5

\* ZIP packs a size and a status that SIZE and STAT read back (mm-advance.c).
LEMMA ZipIs ==
  ASSUME NEW s \in Nat, s % 8 = 0, NEW st \in {1, 2, 3}
  PROVE  ZIP(s, st) \in Nat /\ (ZIP(s, st) \div 8) * 8 = s /\ ZIP(s, st) % 8 = st
<1>1. (s \div 8) * 8 = s /\ st % 8 = st
  OBVIOUS
<1>2. ZIP(s, st) = s + st
  BY <1>1 DEF ZIP
<1>3. ((s + st) \div 8) * 8 = s /\ (s + st) % 8 = st
  OBVIOUS
<1> QED BY <1>2, <1>3

\* What SIZE reads is a multiple of 8.
LEMMA SizesEven ==
  ASSUME NEW n \in Int
  PROVE  (n \div 8) * 8 \in Int /\ ((n \div 8) * 8) % 8 = 0
OBVIOUS

\* ALIGN rounds up to a multiple of 8 and adds less than 8 bytes.
LEMMA AlignIs ==
  ASSUME NEW n \in Nat
  PROVE  ALIGN(n) \in Nat /\ ALIGN(n) % 8 = 0 /\ ALIGN(n) >= n /\ ALIGN(n) < n + 8
BY DEF ALIGN

\* mm_init: the heads of the lists, the prologue and the first block lie in that order,
\* below the limit of the heap.
LEMMA Layout ==
  /\ RANK_NUM \in Nat /\ RANK_NUM >= 1
  /\ BDR_OFF \in Nat /\ BDR_OFF % 8 = 0 /\ BDR_OFF >= RANK_NUM * 4 + 8
  /\ FirstBlock = BDR_OFF + 8 /\ FirstBlock % 8 = 0
  /\ MaxHeap \in Nat /\ MaxHeap % 8 = 0 /\ MaxHeap >= FirstBlock
<1>1. RANK_NUM \in Nat /\ RANK_NUM >= 1
  BY HeapAssumption DEF RANK_NUM
<1>2. (RANK_NUM + 2) * WORD_SIZE \in Nat /\ (RANK_NUM + 2) * WORD_SIZE = RANK_NUM * 4 + 8
  BY <1>1 DEF WORD_SIZE
<1>3. BDR_OFF \in Nat /\ BDR_OFF % 8 = 0 /\ BDR_OFF >= RANK_NUM * 4 + 8
  BY <1>2, AlignIs DEF BDR_OFF
<1> QED BY <1>1, <1>3, HeapAssumption DEF FirstBlock, WORD_SIZE

\* get_rank answers one of the ranks for every size.
LEMMA RankIs ==
  ASSUME NEW s
  PROVE  get_rank(s) \in Ranks
<1> DEFINE fits == {i \in MIN_BLK_BITS..(MAX_BLK_BITS - 1) : 2^i >= s}
<1>1. get_rank(s) = (IF fits = {} THEN MAX_BLK_BITS ELSE Min(fits)) - MIN_BLK_BITS
  BY DEF get_rank
<1>2. fits \in SUBSET (MIN_BLK_BITS..(MAX_BLK_BITS - 1))
  OBVIOUS
<1> HIDE DEF fits
<1>3. fits # {} => Min(fits) \in fits
  <2> SUFFICES ASSUME fits # {} PROVE Min(fits) \in fits
    OBVIOUS
  <2>1. fits \in SUBSET Nat
    BY <1>2, HeapAssumption
  <2>2. \E n \in fits : \A k \in fits : n =< k
    BY <2>1, Least
  <2> QED BY <2>2 DEF Min
<1>4. PICK g : g = IF fits = {} THEN MAX_BLK_BITS ELSE Min(fits)
  OBVIOUS
<1>5. g \in MIN_BLK_BITS..MAX_BLK_BITS
  BY <1>2, <1>3, <1>4, HeapAssumption
<1>6. get_rank(s) = g - MIN_BLK_BITS
  BY <1>1, <1>4
<1> QED BY <1>5, <1>6, HeapAssumption DEF Ranks, RANK_NUM

\* get_rank: a larger block has no smaller rank, so malloc may start at its own.
LEMMA RankGrows ==
  ASSUME NEW s \in Nat, NEW t \in Nat, s =< t
  PROVE  get_rank(s) =< get_rank(t)
<1> DEFINE fits(x) == {i \in MIN_BLK_BITS..(MAX_BLK_BITS - 1) : 2^i >= x}
<1>1. \A x : get_rank(x) = (IF fits(x) = {} THEN MAX_BLK_BITS ELSE Min(fits(x))) - MIN_BLK_BITS
  BY DEF get_rank
<1>2. \A i \in MIN_BLK_BITS..(MAX_BLK_BITS - 1) : 2^i \in Int
  BY HeapAssumption
<1>3. fits(t) \subseteq fits(s)
  BY <1>2
<1>4. fits(s) \in SUBSET Nat /\ fits(t) \in SUBSET (MIN_BLK_BITS..(MAX_BLK_BITS - 1))
      /\ fits(s) \in SUBSET (MIN_BLK_BITS..(MAX_BLK_BITS - 1))
  BY HeapAssumption
<1> DEFINE A == fits(s)  B == fits(t)
<1>5. /\ get_rank(s) = (IF A = {} THEN MAX_BLK_BITS ELSE Min(A)) - MIN_BLK_BITS
      /\ get_rank(t) = (IF B = {} THEN MAX_BLK_BITS ELSE Min(B)) - MIN_BLK_BITS
  BY <1>1
<1> HIDE DEF fits
<1>6. A # {} => Min(A) \in A /\ \A x \in A : Min(A) =< x
  <2> HIDE DEF A
  <2>1. A \in SUBSET Nat
    BY <1>4 DEF A
  <2> SUFFICES ASSUME A # {} PROVE Min(A) \in A /\ \A x \in A : Min(A) =< x
    OBVIOUS
  <2>2. \E n \in A : \A k \in A : n =< k
    BY <2>1, Least
  <2> QED BY <2>2 DEF Min
<1>7. B # {} => Min(B) \in B
  <2> HIDE DEF A, B
  <2>1. B \in SUBSET Nat
    BY <1>3, <1>4 DEF A, B
  <2> SUFFICES ASSUME B # {} PROVE Min(B) \in B
    OBVIOUS
  <2>2. \E n \in B : \A k \in B : n =< k
    BY <2>1, Least
  <2> QED BY <2>2 DEF Min
<1> HIDE DEF A, B
<1>8. PICK a \in MIN_BLK_BITS..MAX_BLK_BITS : a = IF A = {} THEN MAX_BLK_BITS ELSE Min(A)
  BY <1>4, <1>6, HeapAssumption DEF A
<1>9. PICK b \in MIN_BLK_BITS..MAX_BLK_BITS : b = IF B = {} THEN MAX_BLK_BITS ELSE Min(B)
  BY <1>4, <1>7, HeapAssumption DEF B
<1>10. a =< b
  <2>1. CASE B = {}
    BY <1>9, <2>1, HeapAssumption
  <2>2. CASE B # {}
    <3>1. b \in A /\ A # {}
      BY <1>3, <1>7, <1>9, <2>2 DEF A, B
    <3> QED BY <1>6, <1>8, <3>1
  <2> QED BY <2>1, <2>2
<1>11. get_rank(s) = a - MIN_BLK_BITS /\ get_rank(t) = b - MIN_BLK_BITS
  BY <1>5, <1>8, <1>9
<1> QED BY <1>10, <1>11, HeapAssumption

-----------------------------------------------------------------------------
(* The list of a rank, linked both ways: B are the blocks, L the links and *)
(* S the entries.                                                          *)

\* A link is written only when it is of an entry, not of the border (the tests of STAT).
Store(f, x, v) == IF x = BDR_OFF THEN f ELSE [f EXCEPT ![x] = v]

\* list_push and list_remove on the links alone.
Pushed(L, r, x) ==
  [bucket |-> [L.bucket EXCEPT ![r] = x],
   prev |-> Store([L.prev EXCEPT ![x] = BDR_OFF], L.bucket[r], x),
   next |-> [L.next EXCEPT ![x] = L.bucket[r]]]

Removed(L, r, x) ==
  [bucket |-> IF x = L.bucket[r] THEN [L.bucket EXCEPT ![r] = L.next[x]] ELSE L.bucket,
   prev |-> Store(L.prev, L.next[x], L.prev[x]),
   next |-> Store(L.next, L.prev[x], L.next[x])]

\* Heads and links are offsets.
ListsTyped(L, B) ==
  /\ L.bucket \in [Ranks -> Int]
  /\ L.prev \in [B -> Int]
  /\ L.next \in [B -> Int]

\* Next and previous of the entries of the list of rank r, and its head, agree.
Joined(L, B, r, S) ==
  /\ S \subseteq B
  /\ L.bucket[r] \in S \cup {BDR_OFF}
  /\ L.bucket[r] # BDR_OFF => L.prev[L.bucket[r]] = BDR_OFF
  /\ \A x \in S :
       /\ L.next[x] \in S \cup {BDR_OFF} /\ L.prev[x] \in S \cup {BDR_OFF}
       /\ L.next[x] # BDR_OFF => L.prev[L.next[x]] = x
       /\ L.prev[x] # BDR_OFF => L.next[L.prev[x]] = x
       /\ L.prev[x] = BDR_OFF => L.bucket[r] = x

\* list_push keeps the neighbours of its list, and of the others, joined both ways.
LEMMA PushJoins ==
  ASSUME NEW B \in SUBSET Int, BDR_OFF \notin B, NEW L, ListsTyped(L, B),
         NEW r \in Ranks, NEW S, Joined(L, B, r, S),
         NEW x \in B, x \notin S
  PROVE  /\ ListsTyped(Pushed(L, r, x), B)
         /\ Joined(Pushed(L, r, x), B, r, S \cup {x})
         /\ \A q \in Ranks : \A T : q # r /\ Joined(L, B, q, T) /\ T \cap (S \cup {x}) = {}
              => Joined(Pushed(L, r, x), B, q, T)
         /\ Pushed(L, r, x).bucket[r] = x
<1> DEFINE M == Pushed(L, r, x)
<1>1. /\ M.bucket = [L.bucket EXCEPT ![r] = x]
      /\ M.prev = Store([L.prev EXCEPT ![x] = BDR_OFF], L.bucket[r], x)
      /\ M.next = [L.next EXCEPT ![x] = L.bucket[r]]
  BY DEF Pushed
<1> HIDE DEF M
<1>0. x \in Int /\ BDR_OFF \in Int
  BY Layout
<1>2. ListsTyped(M, B)
  <2>1. M.bucket \in [Ranks -> Int] /\ M.next \in [B -> Int]
    BY <1>0, <1>1 DEF ListsTyped
  <2>2. [L.prev EXCEPT ![x] = BDR_OFF] \in [B -> Int]
    BY <1>0 DEF ListsTyped
  <2>3. M.prev \in [B -> Int]
    BY <1>0, <1>1, <2>2 DEF Store
  <2> QED BY <2>1, <2>3 DEF ListsTyped
<1>3. Joined(M, B, r, S \cup {x})
  <2>1. CASE L.bucket[r] = BDR_OFF
    <3>1. S = {}  \/ S # {}
      OBVIOUS
    <3>2. M.prev = [L.prev EXCEPT ![x] = BDR_OFF]
      BY <1>1, <2>1 DEF Store
    <3> QED BY <1>1, <2>1, <3>2 DEF ListsTyped, Joined
  <2>2. CASE L.bucket[r] # BDR_OFF
    <3>1. M.prev = [[L.prev EXCEPT ![x] = BDR_OFF] EXCEPT ![L.bucket[r]] = x]
      BY <1>1, <2>2 DEF Store
    <3>2. L.bucket[r] \in S /\ L.bucket[r] \in B /\ L.bucket[r] # x
      BY <2>2 DEF Joined
    <3> QED BY <1>1, <2>2, <3>1, <3>2 DEF ListsTyped, Joined
  <2> QED BY <2>1, <2>2
<1>4. ASSUME NEW q \in Ranks, NEW T, q # r, Joined(L, B, q, T), T \cap (S \cup {x}) = {}
      PROVE  Joined(M, B, q, T)
  BY <1>1, <1>4 DEF ListsTyped, Store, Joined
<1>5. M.bucket[r] = x
  BY <1>1 DEF ListsTyped
<1> QED BY <1>2, <1>3, <1>4, <1>5 DEF M

\* So does list_remove, at any place of its list.
LEMMA RemoveJoins ==
  ASSUME NEW B \in SUBSET Int, BDR_OFF \notin B, NEW L, ListsTyped(L, B),
         NEW r \in Ranks, NEW S, Joined(L, B, r, S),
         NEW x \in S
  PROVE  /\ ListsTyped(Removed(L, r, x), B)
         /\ Joined(Removed(L, r, x), B, r, S \ {x})
         /\ \A q \in Ranks : \A T : q # r /\ Joined(L, B, q, T) /\ T \cap S = {}
              => Joined(Removed(L, r, x), B, q, T)
<1> DEFINE M == Removed(L, r, x)
<1>1. /\ M.bucket = IF x = L.bucket[r] THEN [L.bucket EXCEPT ![r] = L.next[x]] ELSE L.bucket
      /\ M.prev = Store(L.prev, L.next[x], L.prev[x])
      /\ M.next = Store(L.next, L.prev[x], L.next[x])
  BY DEF Removed
<1> HIDE DEF M
<1>2. x \in B
  BY DEF Joined
<1>3. ListsTyped(M, B)
  <2>1. /\ L.bucket \in [Ranks -> Int] /\ L.prev \in [B -> Int] /\ L.next \in [B -> Int]
        /\ L.next[x] \in Int /\ L.prev[x] \in Int
    BY <1>2 DEF ListsTyped
  <2>2. M.bucket \in [Ranks -> Int]
    BY <1>1, <2>1
  <2>3. M.prev \in [B -> Int]
    BY <1>1, <2>1 DEF Store
  <2>4. M.next \in [B -> Int]
    BY <1>1, <2>1 DEF Store
  <2> QED BY <2>2, <2>3, <2>4 DEF ListsTyped
<1>4. Joined(M, B, r, S \ {x})
  BY <1>1, <1>2 DEF ListsTyped, Store, Joined
<1>5. ASSUME NEW q \in Ranks, NEW T, q # r, Joined(L, B, q, T), T \cap S = {}
      PROVE  Joined(M, B, q, T)
  BY <1>1, <1>2, <1>5 DEF ListsTyped, Store, Joined
<1> QED BY <1>3, <1>4, <1>5 DEF M

\* From its head the list leads through every node of S once: s[1], ..., s[N].
InLine(L, r, S, N, s) ==
  /\ N \in Nat /\ s \in [1..N -> S]
  /\ \A x \in S : \E i \in 1..N : s[i] = x
  /\ \A i, j \in 1..N : s[i] = s[j] => i = j
  /\ L.bucket[r] = IF N = 0 THEN BDR_OFF ELSE s[1]
  /\ \A i \in 1..N : L.next[s[i]] = IF i = N THEN BDR_OFF ELSE s[i + 1]

\* The list of rank r has the entries S.
Linked(L, B, r, S) == Joined(L, B, r, S) /\ \E N, s : InLine(L, r, S, N, s)

\* list_push adds the entry to its list as the first, and leaves the other lists alone.
LEMMA PushLinks ==
  ASSUME NEW B \in SUBSET Int, BDR_OFF \notin B, NEW L, ListsTyped(L, B),
         NEW r \in Ranks, NEW S, Linked(L, B, r, S),
         NEW x \in B, x \notin S
  PROVE  /\ ListsTyped(Pushed(L, r, x), B)
         /\ Linked(Pushed(L, r, x), B, r, S \cup {x})
         /\ \A q \in Ranks : \A T : q # r /\ Linked(L, B, q, T) /\ T \cap (S \cup {x}) = {}
              => Linked(Pushed(L, r, x), B, q, T)
         /\ Pushed(L, r, x).bucket[r] = x
<1> DEFINE M == Pushed(L, r, x)
<1>1. /\ M.bucket = [L.bucket EXCEPT ![r] = x]
      /\ M.next = [L.next EXCEPT ![x] = L.bucket[r]]
  BY DEF Pushed
<1>2. /\ ListsTyped(M, B) /\ Joined(M, B, r, S \cup {x}) /\ M.bucket[r] = x
      /\ \A q \in Ranks : \A T : q # r /\ Joined(L, B, q, T) /\ T \cap (S \cup {x}) = {}
              => Joined(M, B, q, T)
  BY PushJoins DEF Linked
<1> HIDE DEF M
<1>3. PICK N, s : InLine(L, r, S, N, s)
  BY DEF Linked
<1> DEFINE t == [i \in 1..(N + 1) |-> IF i = 1 THEN x ELSE s[i - 1]]
<1>4. InLine(M, r, S \cup {x}, N + 1, t)
  <2>1. N + 1 \in Nat /\ N + 1 # 0 /\ N \in Nat
    BY <1>3 DEF InLine
  <2>2. \A i \in 1..(N + 1) : i # 1 => i - 1 \in 1..N
    BY <2>1
  <2>3. t[1] = x /\ (\A i \in 1..N : t[i + 1] = s[i] /\ i + 1 \in 1..(N + 1) /\ i + 1 # 1)
        /\ 1 \in 1..(N + 1)
    BY <2>1
  <2>4. \A i \in 1..N : s[i] \in S
    BY <1>3 DEF InLine
  <2>5. t \in [1..(N + 1) -> S \cup {x}]
    BY <2>2, <2>4
  <2>6. \A i \in 1..(N + 1) : i = 1 \/ (\E j \in 1..N : i = j + 1)
    BY <2>1
  <2> HIDE DEF t
  <2>7. \A y \in S \cup {x} : \E i \in 1..(N + 1) : t[i] = y
    BY <1>3, <2>3 DEF InLine
  <2>8. \A i, j \in 1..(N + 1) : t[i] = t[j] => i = j
    <3> SUFFICES ASSUME NEW i \in 1..(N + 1), NEW j \in 1..(N + 1), t[i] = t[j] PROVE i = j
      OBVIOUS
    <3>1. CASE i = 1 /\ j = 1
      BY <3>1
    <3>2. CASE i # 1 /\ j # 1
      <4>1. PICK c \in 1..N, d \in 1..N : i = c + 1 /\ j = d + 1
        BY <2>6, <3>2
      <4>2. s[c] = s[d]
        BY <2>3, <4>1
      <4> QED BY <1>3, <4>1, <4>2 DEF InLine
    <3>3. CASE (i = 1 /\ j # 1) \/ (i # 1 /\ j = 1)
      BY <2>3, <2>4, <2>6, <3>3
    <3> QED BY <3>1, <3>2, <3>3
  <2>9. \A i \in 1..(N + 1) : M.next[t[i]] = IF i = N + 1 THEN BDR_OFF ELSE t[i + 1]
    <3> SUFFICES ASSUME NEW i \in 1..(N + 1)
                 PROVE  M.next[t[i]] = IF i = N + 1 THEN BDR_OFF ELSE t[i + 1]
      OBVIOUS
    <3>0. L.next \in [B -> Int] /\ S \subseteq B
      BY DEF ListsTyped, Linked, Joined
    <3>1. CASE i = 1
      <4>1. M.next[x] = L.bucket[r] /\ L.bucket[r] = IF N = 0 THEN BDR_OFF ELSE s[1]
        BY <1>1, <1>3, <3>0 DEF InLine
      <4>2. N # 0 => t[2] = s[1]
        BY <2>1, <2>3
      <4> QED BY <2>1, <2>3, <3>1, <4>1, <4>2
    <3>2. CASE i # 1
      <4>1. PICK j \in 1..N : i = j + 1
        BY <2>6, <3>2
      <4>2. t[i] = s[j] /\ s[j] \in B /\ s[j] # x
        BY <2>3, <2>4, <3>0, <4>1
      <4>3. M.next[s[j]] = L.next[s[j]]
        BY <1>1, <3>0, <4>2
      <4>4. L.next[s[j]] = IF j = N THEN BDR_OFF ELSE s[j + 1]
        BY <1>3 DEF InLine
      <4>5. j # N => t[i + 1] = s[j + 1]
        <5>1. j # N => j + 1 \in 1..N
          BY <2>1
        <5> QED BY <2>3, <4>1, <5>1
      <4>6. j = N <=> i = N + 1
        BY <2>1, <4>1
      <4> QED BY <4>2, <4>3, <4>4, <4>5, <4>6
    <3> QED BY <3>1, <3>2
  <2> QED BY <1>2, <2>1, <2>3, <2>5, <2>7, <2>8, <2>9 DEF InLine
<1> HIDE DEF t
<1>5. ASSUME NEW q \in Ranks, NEW T, q # r, Linked(L, B, q, T), T \cap (S \cup {x}) = {}
      PROVE  Linked(M, B, q, T)
  <2>1. PICK K, u : InLine(L, q, T, K, u)
    BY <1>5 DEF Linked
  <2>2. T \subseteq B /\ L.next \in [B -> Int]
        /\ L.bucket \in [Ranks -> Int]
    BY <1>5 DEF Linked, Joined, ListsTyped
  <2>3. M.bucket[q] = L.bucket[q] /\ \A y \in T : M.next[y] = L.next[y]
    BY <1>1, <1>5, <2>2
  <2>4. InLine(M, q, T, K, u)
    BY <2>1, <2>3 DEF InLine
  <2> QED BY <1>2, <1>5, <2>4 DEF Linked
<1> QED BY <1>2, <1>4, <1>5 DEF Linked, M

\* list_remove takes an entry from any place of its list, and leaves the others alone.
LEMMA RemoveLinks ==
  ASSUME NEW B \in SUBSET Int, BDR_OFF \notin B, NEW L, ListsTyped(L, B),
         NEW r \in Ranks, NEW S, Linked(L, B, r, S),
         NEW x \in S
  PROVE  /\ ListsTyped(Removed(L, r, x), B)
         /\ Linked(Removed(L, r, x), B, r, S \ {x})
         /\ \A q \in Ranks : \A T : q # r /\ Linked(L, B, q, T) /\ T \cap S = {}
              => Linked(Removed(L, r, x), B, q, T)
<1> DEFINE M == Removed(L, r, x)
<1>1. /\ M.bucket = IF x = L.bucket[r] THEN [L.bucket EXCEPT ![r] = L.next[x]] ELSE L.bucket
      /\ M.next = Store(L.next, L.prev[x], L.next[x])
  BY DEF Removed
<1>2. /\ ListsTyped(M, B) /\ Joined(M, B, r, S \ {x})
      /\ \A q \in Ranks : \A T : q # r /\ Joined(L, B, q, T) /\ T \cap S = {}
              => Joined(M, B, q, T)
  BY RemoveJoins DEF Linked
<1> HIDE DEF M
<1>3. PICK N, s : InLine(L, r, S, N, s)
  BY DEF Linked
<1>4. PICK k \in 1..N : s[k] = x
  BY <1>3 DEF InLine
<1>5. N \in Nat /\ N - 1 \in Nat /\ k \in Nat /\ 1 =< k /\ k =< N
  BY <1>3, <1>4 DEF InLine
<1>6. S \subseteq B /\ L.next \in [B -> Int]
      /\ L.bucket \in [Ranks -> Int] /\ \A i \in 1..N : s[i] \in S
  BY <1>3 DEF Linked, Joined, ListsTyped, InLine
<1>7. L.prev[x] = IF k = 1 THEN BDR_OFF ELSE s[k - 1]
  <2>1. CASE k = 1
    <3>1. L.bucket[r] = x /\ x # BDR_OFF
      BY <1>3, <1>4, <1>5, <1>6, <2>1 DEF InLine
    <3> QED BY <2>1, <3>1 DEF Linked, Joined
  <2>2. CASE k # 1
    <3>1. k - 1 \in 1..N /\ k - 1 # N /\ (k - 1) + 1 = k
      BY <1>5, <2>2
    <3>2. L.next[s[k - 1]] = x /\ s[k - 1] \in S
      BY <1>3, <1>4, <1>6, <3>1 DEF InLine
    <3>3. x # BDR_OFF
      BY <1>6
    <3> QED BY <2>2, <3>2, <3>3 DEF Linked, Joined
  <2> QED BY <2>1, <2>2
<1> DEFINE t == [i \in 1..(N - 1) |-> IF i < k THEN s[i] ELSE s[i + 1]]
<1>8. InLine(M, r, S \ {x}, N - 1, t)
  <2>1. \A i \in 1..(N - 1) : i \in 1..N /\ i + 1 \in 1..N /\ i # N
                              /\ t[i] = IF i < k THEN s[i] ELSE s[i + 1]
    BY <1>5
  <2>2. t \in [1..(N - 1) -> S \ {x}]
    <3>1. ASSUME NEW i \in 1..(N - 1)
          PROVE  (IF i < k THEN s[i] ELSE s[i + 1]) \in S \ {x}
      <4>1. i \in 1..N /\ i + 1 \in 1..N /\ (i < k => i # k) /\ (~(i < k) => i + 1 # k)
        BY <1>5
      <4> QED BY <1>3, <1>4, <1>6, <4>1 DEF InLine
    <3> QED BY <3>1
  <2> HIDE DEF t
  <2>3. \A y \in S \ {x} : \E i \in 1..(N - 1) : t[i] = y
    <3> SUFFICES ASSUME NEW y \in S \ {x} PROVE \E i \in 1..(N - 1) : t[i] = y
      OBVIOUS
    <3>1. PICK j \in 1..N : s[j] = y
      BY <1>3 DEF InLine
    <3>2. j # k
      BY <1>4, <3>1
    <3>3. CASE j < k
      <4>1. j \in 1..(N - 1)
        BY <1>5, <3>3
      <4> QED BY <2>1, <3>1, <3>3, <4>1
    <3>4. CASE ~(j < k)
      <4>1. j - 1 \in 1..(N - 1) /\ (j - 1) + 1 = j /\ ~(j - 1 < k)
        BY <1>5, <3>2, <3>4
      <4> QED BY <2>1, <3>1, <4>1
    <3> QED BY <3>3, <3>4
  <2>4. \A i, j \in 1..(N - 1) : t[i] = t[j] => i = j
    <3> SUFFICES ASSUME NEW i \in 1..(N - 1), NEW j \in 1..(N - 1), t[i] = t[j] PROVE i = j
      OBVIOUS
    <3>1. (IF i < k THEN i ELSE i + 1) = (IF j < k THEN j ELSE j + 1)
      BY <1>3, <2>1 DEF InLine
    <3> QED BY <1>5, <3>1
  <2>5. \A i \in 1..(N - 1) : M.next[t[i]] = IF i = N - 1 THEN BDR_OFF ELSE t[i + 1]
    <3> SUFFICES ASSUME NEW i \in 1..(N - 1)
                 PROVE  M.next[t[i]] = IF i = N - 1 THEN BDR_OFF ELSE t[i + 1]
      OBVIOUS
    <3>1. \A j \in 1..N : M.next[s[j]] = IF j = k - 1 THEN L.next[x] ELSE L.next[s[j]]
      <4> SUFFICES ASSUME NEW j \in 1..N
                   PROVE  M.next[s[j]] = IF j = k - 1 THEN L.next[x] ELSE L.next[s[j]]
        OBVIOUS
      <4>1. CASE k = 1
        <5>1. M.next = L.next /\ j # k - 1
          BY <1>1, <1>7, <4>1 DEF Store
        <5> QED BY <5>1
      <4>2. CASE k # 1
        <5>1. k - 1 \in 1..N
          BY <1>5, <4>2
        <5>2. s[k - 1] \in S /\ s[k - 1] # BDR_OFF /\ s[j] \in B /\ s[k - 1] \in B
          BY <1>6, <5>1
        <5>3. M.next = [L.next EXCEPT ![s[k - 1]] = L.next[x]]
          BY <1>1, <1>7, <4>2, <5>2 DEF Store
        <5>4. M.next[s[j]] = IF s[j] = s[k - 1] THEN L.next[x] ELSE L.next[s[j]]
          BY <1>6, <5>2, <5>3
        <5>5. s[j] = s[k - 1] <=> j = k - 1
          BY <1>3, <5>1 DEF InLine
        <5> QED BY <5>4, <5>5
      <4> QED BY <4>1, <4>2
    <3>2. \A j \in 1..N : L.next[s[j]] = IF j = N THEN BDR_OFF ELSE s[j + 1]
      BY <1>3 DEF InLine
    <3>3. L.next[x] = IF k = N THEN BDR_OFF ELSE s[k + 1]
      BY <1>4, <3>2
    <3>4. i \in 1..N /\ i + 1 \in 1..N
      BY <1>5
    <3>5. CASE i < k - 1
      <4>1. i < k /\ i + 1 < k /\ i # k - 1 /\ i # N /\ i # N - 1 /\ i + 1 \in 1..(N - 1)
        BY <1>5, <3>5
      <4>2. t[i] = s[i] /\ t[i + 1] = s[i + 1]
        BY <2>1, <4>1
      <4> QED BY <3>1, <3>2, <3>4, <4>1, <4>2
    <3>6. CASE i = k - 1
      <4>1. i < k /\ (i = N - 1 <=> k = N) /\ (i # N - 1 => i + 1 \in 1..(N - 1) /\ ~(i + 1 < k))
            /\ (i + 1) + 1 = k + 1
        BY <1>5, <3>6
      <4>2. t[i] = s[i] /\ (i # N - 1 => t[i + 1] = s[k + 1])
        BY <2>1, <4>1
      <4> QED BY <3>1, <3>3, <3>4, <3>6, <4>1, <4>2
    <3>7. CASE i >= k
      <4>1. ~(i < k) /\ i + 1 # k - 1 /\ (i = N - 1 <=> i + 1 = N)
            /\ (i # N - 1 => i + 1 \in 1..(N - 1) /\ ~(i + 1 < k))
        BY <1>5, <3>7
      <4>2. t[i] = s[i + 1] /\ (i # N - 1 => t[i + 1] = s[(i + 1) + 1])
        BY <2>1, <4>1
      <4> QED BY <3>1, <3>2, <3>4, <4>1, <4>2
    <3>8. i < k - 1 \/ i = k - 1 \/ i >= k
      BY <1>5
    <3> QED BY <3>5, <3>6, <3>7, <3>8
  <2>6. M.bucket[r] = IF N - 1 = 0 THEN BDR_OFF ELSE t[1]
    <3>1. L.bucket[r] = s[1] /\ 1 \in 1..N
      BY <1>3, <1>5 DEF InLine
    <3>2. CASE k = 1
      <4>1. M.bucket[r] = L.next[x] /\ L.next[x] = IF 1 = N THEN BDR_OFF ELSE s[1 + 1]
        BY <1>1, <1>3, <1>4, <1>6, <3>1, <3>2 DEF InLine
      <4>2. (N = 1 <=> N - 1 = 0) /\ (N - 1 # 0 => 1 \in 1..(N - 1)) /\ ~(1 < k)
        BY <1>5, <3>2
      <4> QED BY <2>1, <4>1, <4>2
    <3>3. CASE k # 1
      <4>1. s[1] # x
        BY <1>3, <1>4, <3>1, <3>3 DEF InLine
      <4>2. M.bucket[r] = s[1]
        BY <1>1, <3>1, <4>1
      <4>3. N - 1 # 0 /\ 1 \in 1..(N - 1) /\ 1 < k
        BY <1>5, <3>3
      <4> QED BY <2>1, <4>2, <4>3
    <3> QED BY <3>2, <3>3
  <2> QED BY <1>5, <2>2, <2>3, <2>4, <2>5, <2>6 DEF InLine
<1> HIDE DEF t
<1>9. ASSUME NEW q \in Ranks, NEW T, q # r, Linked(L, B, q, T), T \cap S = {}
      PROVE  Linked(M, B, q, T)
  <2>1. PICK K, u : InLine(L, q, T, K, u)
    BY <1>9 DEF Linked
  <2>2. M.bucket[q] = L.bucket[q]
    BY <1>1, <1>6, <1>9
  <2>3. L.prev[x] \in S \cup {BDR_OFF} /\ T \subseteq B
    BY <1>9 DEF Linked, Joined
  <2>4. \A y \in T : M.next[y] = L.next[y]
    BY <1>1, <1>6, <1>9, <2>3 DEF Store
  <2>5. InLine(M, q, T, K, u)
    BY <2>1, <2>2, <2>4 DEF InLine
  <2> QED BY <1>2, <1>9, <2>5 DEF Linked
<1> QED BY <1>2, <1>8, <1>9 DEF Linked, M

-----------------------------------------------------------------------------
(* A heap in memory: the blocks B, of sizes z, up to the end b; U of them  *)
(* are in use, W have their header and footer, F are in the lists.         *)

\* What a word may hold.
Val == Tags \cup Nat

\* The blocks B, of sizes z, tile the heap from the first block to its end b.
Shape(B, z, b) ==
  /\ B \in SUBSET Int /\ z \in [B -> Nat]
  /\ b \in Int /\ b % 8 = 0 /\ FirstBlock =< b /\ b =< MaxHeap
  /\ \A p \in B : /\ p % 8 = 0 /\ FirstBlock =< p /\ z[p] % 8 = 0 /\ z[p] > 16
                  /\ p + z[p] =< b /\ p + z[p] \in B \cup {b}
  /\ \A p, q \in B : p < q => p + z[p] =< q
  /\ FirstBlock \in B \cup {b}
  /\ \A q \in B \cup {b} : q = FirstBlock \/ \E p \in B : q = p + z[p]

\* Header and footer of a block; U are the blocks in use.
Head(z, U, p) == ZIP(z[p], IF p \in U THEN USED ELSE UNUSED)

Headed(m, z, U, p) == m[p - 8] = Head(z, U, p) /\ m[p + z[p] - 16] = Head(z, U, p)

\* Prologue and epilogue.
Bordered(m, b) == m[BDR_OFF - 8] = ZIP(8, BORDER) /\ m[b - 8] = ZIP(0, BORDER)

\* Heads and links as list_push and list_remove read them in memory.
View(m, B, z) ==
  [bucket |-> [r \in Ranks |-> m[BUCK(r)]],
   prev |-> [p \in B |-> m[p + z[p] - 12]],
   next |-> [p \in B |-> m[p - 4]]]

\* The blocks of F whose size has the rank r.
Entry(z, F, r) == {p \in F : get_rank(z[p]) = r}

Listing(m, B, z, F) == \A r \in Ranks : Linked(View(m, B, z), B, r, Entry(z, F, r))

\* The memory m holds that heap.
HeapAt(m, B, z, b, U, F, W) ==
  /\ Shape(B, z, b) /\ m \in [Words -> Val]
  /\ U \subseteq B /\ F \subseteq W /\ W \subseteq B
  /\ Bordered(m, b)
  /\ \A p \in W : Headed(m, z, U, p)
  /\ Listing(m, B, z, F)

\* What a word holds is a number: a header, an offset, a zero of calloc or a tag.
LEMMA Values == Val \subseteq Int
BY HeapAssumption DEF Val

\* The four words of a block (HDR_PTR, NEX_PTR, FTR_PTR, PRE_PTR) lie in the heap and
\* above the prologue.
LEMMA Cells ==
  ASSUME NEW B, NEW z, NEW b, Shape(B, z, b), NEW p \in B
  PROVE  /\ p \in Int /\ z[p] \in Nat /\ z[p] >= 24 /\ b \in Int
         /\ p - 8 \in Words /\ p - 4 \in Words /\ p + z[p] - 16 \in Words /\ p + z[p] - 12 \in Words
         /\ p - 8 >= BDR_OFF /\ p + z[p] =< b /\ p # BDR_OFF /\ p # NULL
<1>1. /\ p \in Int /\ z[p] \in Nat /\ p % 8 = 0 /\ z[p] % 8 = 0 /\ z[p] > 16 /\ p + z[p] =< b
      /\ FirstBlock =< p /\ b \in Int /\ b =< MaxHeap
  BY DEF Shape
<1>2. z[p] >= 24
  BY <1>1
<1>3. p - 8 >= BDR_OFF /\ p # BDR_OFF /\ p # NULL /\ BDR_OFF \in Nat /\ MaxHeap \in Nat
  BY <1>1, Layout DEF NULL
<1>4. PICK s \in Nat : s = z[p] /\ s % 8 = 0 /\ s >= 24 /\ p + s =< b
  BY <1>1, <1>2
<1>5. (p - 8) % 4 = 0 /\ (p - 4) % 4 = 0 /\ (p + s - 16) % 4 = 0 /\ (p + s - 12) % 4 = 0
  BY <1>1, <1>4
<1>6. p - 8 \in Words /\ p - 4 \in Words /\ p + s - 16 \in Words /\ p + s - 12 \in Words
  BY <1>1, <1>3, <1>4, <1>5 DEF Words, WORD_SIZE
<1> QED BY <1>1, <1>2, <1>3, <1>4, <1>6

\* Two blocks have no word in common.
LEMMA Apart ==
  ASSUME NEW B, NEW z, NEW b, Shape(B, z, b), NEW p \in B, NEW q \in B, p # q
  PROVE  p + z[p] =< q \/ q + z[q] =< p
<1>1. p \in Int /\ q \in Int
  BY DEF Shape
<1>2. p < q \/ q < p
  BY <1>1
<1> QED BY <1>2 DEF Shape

\* The heads of the lists (BUCK) lie below the prologue, each at its own word.
LEMMA BuckIs ==
  ASSUME NEW r \in Ranks
  PROVE  /\ BUCK(r) \in Words /\ BUCK(r) \in Nat /\ BUCK(r) < BDR_OFF - 8
         /\ \A q \in Ranks : BUCK(q) = BUCK(r) => q = r
<1>1. BUCK(r) = r * 4 /\ r \in Nat /\ \A q \in Ranks : BUCK(q) = q * 4 /\ q \in Nat
  BY Layout DEF BUCK, WORD_SIZE, Ranks
<1>2. r * 4 < RANK_NUM * 4 /\ (r * 4) % 4 = 0
  BY <1>1, Layout DEF Ranks
<1> QED BY <1>1, <1>2, Layout DEF Words, WORD_SIZE, Ranks

\* The headers of prologue and epilogue lie in the heap.
LEMMA BorderCells ==
  ASSUME NEW B, NEW z, NEW b, Shape(B, z, b)
  PROVE  b - 8 \in Words /\ BDR_OFF - 8 \in Words /\ b - 8 >= BDR_OFF /\ b \in Int /\ b # BDR_OFF
<1>1. b \in Int /\ b % 8 = 0 /\ FirstBlock =< b /\ b =< MaxHeap
  BY DEF Shape
<1>2. (b - 8) % 4 = 0 /\ (BDR_OFF - 8) % 4 = 0
  BY <1>1, Layout
<1> QED BY <1>1, <1>2, Layout DEF Words, WORD_SIZE

\* The macros of mm-advance.c as words of the heap.
LEMMA Reads ==
  ASSUME NEW m, NEW p
  PROVE  /\ HDR_PTR(p) = p - 8 /\ NEX_PTR(p) = p - 4
         /\ SIZE(m, p) = (m[p - 8] \div 8) * 8 /\ STAT(m, p) = m[p - 8] % 8
         /\ PRE_PTR(m, p) = p + SIZE(m, p) - 12 /\ FTR_PTR(m, p) = p + SIZE(m, p) - 16
         /\ LIST_NEXT(m, p) = m[p - 4] /\ LIST_PREV(m, p) = m[p + SIZE(m, p) - 12]
         /\ HEAP_NEXT(m, p) = p + SIZE(m, p) /\ HEAP_PREV(m, p) = p - (m[p - 16] \div 8) * 8
BY DEF HDR_PTR, NEX_PTR, SIZE, STAT, PRE_PTR, FTR_PTR, LIST_NEXT, LIST_PREV, HEAP_NEXT, HEAP_PREV, WORD_SIZE

\* The header written for a block gives its size and its status back.
LEMMA HeadIs ==
  ASSUME NEW B, NEW z, NEW b, Shape(B, z, b), NEW U, NEW p \in B
  PROVE  /\ Head(z, U, p) \in Nat
         /\ (Head(z, U, p) \div 8) * 8 = z[p]
         /\ Head(z, U, p) % 8 = IF p \in U THEN USED ELSE UNUSED
<1>1. z[p] \in Nat /\ z[p] % 8 = 0
  BY DEF Shape
<1>2. PICK st \in {1, 2, 3} : st = IF p \in U THEN USED ELSE UNUSED
  BY DEF USED, UNUSED
<1>3. Head(z, U, p) = ZIP(z[p], st)
  BY <1>2 DEF Head
<1> QED BY <1>1, <1>2, <1>3, ZipIs

\* SIZE and STAT of a block that has its header; no block is a border.
LEMMA SizeIs ==
  ASSUME NEW m, NEW B, NEW z, NEW b, Shape(B, z, b), NEW U, NEW p \in B, Headed(m, z, U, p)
  PROVE  /\ SIZE(m, p) = z[p]
         /\ STAT(m, p) = IF p \in U THEN USED ELSE UNUSED
         /\ STAT(m, p) # BORDER
<1>1. m[p - 8] = Head(z, U, p)
  BY DEF Headed
<1>2. SIZE(m, p) = z[p] /\ STAT(m, p) = IF p \in U THEN USED ELSE UNUSED
  BY <1>1, HeadIs, Reads
<1> QED BY <1>2 DEF USED, UNUSED, BORDER

\* STAT of prologue and epilogue, which end the lists and stop the merges of free.
LEMMA BorderIs ==
  ASSUME NEW m, NEW b, Bordered(m, b)
  PROVE  /\ STAT(m, BDR_OFF) = BORDER /\ STAT(m, b) = BORDER
         /\ (m[BDR_OFF - 8] \div 8) * 8 = 8
<1>1. /\ (ZIP(8, BORDER) \div 8) * 8 = 8 /\ ZIP(8, BORDER) % 8 = BORDER
      /\ ZIP(0, BORDER) % 8 = BORDER
  BY ZipIs DEF BORDER
<1> QED BY <1>1, Reads DEF Bordered

-----------------------------------------------------------------------------
(* What writing links leaves alone.                                        *)

\* The words that hold a head of a list or a link.
LinkCell(B, z, a) ==
  \/ \E r \in Ranks : a = BUCK(r)
  \/ \E p \in B : a = p - 4 \/ a = p + z[p] - 12

\* No payload changed.
Kept(m, n, B, z) ==
  \A p \in B : \A a \in Words : p =< a /\ a < p + z[p] - 16 => n[a] = m[a]

\* No header changed, nor footer, nor border.
SameHeads(m, n, B, z, b) ==
  /\ \A p \in B : n[p - 8] = m[p - 8] /\ n[p + z[p] - 16] = m[p + z[p] - 16]
  /\ n[BDR_OFF - 8] = m[BDR_OFF - 8] /\ n[b - 8] = m[b - 8]

\* Writing links and heads of lists, as list_push and list_remove do, disturbs neither
\* headers nor footers nor payloads.
LEMMA LinksOnly ==
  ASSUME NEW B, NEW z, NEW b, Shape(B, z, b), NEW m, NEW n,
         \A a \in Words : LinkCell(B, z, a) \/ n[a] = m[a]
  PROVE  SameHeads(m, n, B, z, b) /\ Kept(m, n, B, z)
<1>1. ASSUME NEW a \in Words, LinkCell(B, z, a)
      PROVE  /\ \A p \in B : a # p - 8 /\ a # p + z[p] - 16 /\ (p =< a => ~(a < p + z[p] - 16))
             /\ a # BDR_OFF - 8 /\ a # b - 8
  <2>0. /\ \A p \in B : /\ p \in Int /\ z[p] \in Nat /\ z[p] >= 24 /\ p - 8 >= BDR_OFF
                        /\ p + z[p] =< b
        /\ BDR_OFF \in Nat /\ b \in Int /\ b - 8 >= BDR_OFF
    BY Cells, Layout, BorderCells
  <2>1. CASE \E r \in Ranks : a = BUCK(r)
    <3>1. PICK r \in Ranks : a = BUCK(r)
      BY <2>1
    <3>2. a \in Nat /\ a < BDR_OFF - 8
      BY <3>1, BuckIs
    <3> QED BY <2>0, <3>2
  <2>2. CASE \E p \in B : a = p - 4 \/ a = p + z[p] - 12
    <3>1. PICK q \in B : a = q - 4 \/ a = q + z[q] - 12
      BY <2>2
    <3>2. ASSUME NEW p \in B
          PROVE  a # p - 8 /\ a # p + z[p] - 16 /\ (p =< a => ~(a < p + z[p] - 16))
      <4>1. p = q \/ p + z[p] =< q \/ q + z[q] =< p
        BY Apart
      <4>2. PICK x \in Int, y \in Int, s \in Nat, t \in Nat :
                 x = p /\ y = q /\ s = z[p] /\ t = z[q] /\ s >= 24 /\ t >= 24
        BY <2>0
      <4>3. (x = y /\ s = t) \/ x + s =< y \/ y + t =< x
        BY <4>1, <4>2
      <4>4. a = y - 4 \/ a = y + t - 12
        BY <3>1, <4>2
      <4>5. a # x - 8 /\ a # x + s - 16 /\ (x =< a => ~(a < x + s - 16))
        BY <4>2, <4>3, <4>4
      <4> QED BY <4>2, <4>5
    <3>3. a # BDR_OFF - 8 /\ a # b - 8
      BY <2>0, <3>1
    <3> QED BY <3>2, <3>3
  <2> QED BY <1>1, <2>1, <2>2 DEF LinkCell
<1>2. ASSUME NEW p \in B
      PROVE  n[p - 8] = m[p - 8] /\ n[p + z[p] - 16] = m[p + z[p] - 16]
  <2>1. p - 8 \in Words /\ p + z[p] - 16 \in Words
    BY Cells
  <2> QED BY <1>1, <2>1
<1>3. n[BDR_OFF - 8] = m[BDR_OFF - 8] /\ n[b - 8] = m[b - 8]
  <2>1. BDR_OFF - 8 \in Words /\ b - 8 \in Words
    BY BorderCells
  <2> QED BY <1>1, <2>1
<1>4. Kept(m, n, B, z)
  BY <1>1 DEF Kept
<1> QED BY <1>2, <1>3, <1>4 DEF SameHeads

\* list_push, word by word: its test of STAT tells the prologue from an entry.
LEMMA PushIs ==
  ASSUME NEW m, NEW B, NEW z, NEW b, NEW U, NEW F, NEW W, HeapAt(m, B, z, b, U, F, W),
         NEW x \in W, NEW r \in Ranks
  PROVE  /\ list_push(m, x, r) \in [Words -> Val]
         /\ m[BUCK(r)] \in F \cup {BDR_OFF}
         /\ \A a \in Words : list_push(m, x, r)[a] =
              IF a = BUCK(r) THEN x
              ELSE IF a = x + z[x] - 12 THEN BDR_OFF
              ELSE IF a = x - 4 THEN m[BUCK(r)]
              ELSE IF m[BUCK(r)] # BDR_OFF /\ a = m[BUCK(r)] + z[m[BUCK(r)]] - 12 THEN x
              ELSE m[a]
<1>1. Shape(B, z, b) /\ m \in [Words -> Val] /\ F \subseteq W /\ W \subseteq B /\ Bordered(m, b)
  BY DEF HeapAt
<1>2. \A p \in W : Headed(m, z, U, p)
  BY DEF HeapAt
<1>3. m[BUCK(r)] \in Entry(z, F, r) \cup {BDR_OFF}
  <2>1. Joined(View(m, B, z), B, r, Entry(z, F, r))
    BY DEF HeapAt, Listing, Linked
  <2>2. View(m, B, z).bucket[r] = m[BUCK(r)]
    BY DEF View
  <2> QED BY <2>1, <2>2 DEF Joined
<1>4. m[BUCK(r)] \in F \cup {BDR_OFF}
  BY <1>3 DEF Entry
<1>5. PICK h : h = m[BUCK(r)]
  OBVIOUS
<1>6. h \in F \cup {BDR_OFF} /\ (h # BDR_OFF => h \in W /\ h \in B)
  BY <1>1, <1>4, <1>5
<1> DEFINE m1 == IF h # BDR_OFF THEN [m EXCEPT ![h + z[h] - 12] = x] ELSE m
<1>7. list_push(m, x, r) = [m1 EXCEPT ![x - 4] = h, ![x + z[x] - 12] = BDR_OFF, ![BUCK(r)] = x]
      /\ m1 \in [Words -> Val]
  <2>1. LIST(m, r) = h
    BY <1>5 DEF LIST
  <2>2. x \in B /\ x \in Nat
    BY <1>1, Cells, Layout
  <2>3. h = BDR_OFF => STAT(m, h) = BORDER
    BY <1>1, BorderIs
  <2>4. h # BDR_OFF => STAT(m, h) # BORDER /\ PRE_PTR(m, h) = h + z[h] - 12
    <3>1. h # BDR_OFF => SIZE(m, h) = z[h] /\ STAT(m, h) # BORDER
      BY <1>1, <1>2, <1>6, SizeIs
    <3> QED BY <3>1, Reads
  <2>5. m1 = IF STAT(m, h) # BORDER THEN [m EXCEPT ![PRE_PTR(m, h)] = x] ELSE m
    BY <2>3, <2>4
  <2>6. m1 \in [Words -> Val]
    <3>1. x \in Val
      BY <2>2 DEF Val
    <3> QED BY <1>1, <3>1
  <2>7. m1[x - 8] = m[x - 8]
    <3>1. CASE h = BDR_OFF
      BY <3>1
    <3>2. CASE h # BDR_OFF
      <4>1. h \in B
        BY <1>6, <3>2
      <4>2. h + z[h] - 12 # x - 8
        <5>1. h = x \/ h + z[h] =< x \/ x + z[x] =< h
          BY <1>1, <2>2, <4>1, Apart
        <5>2. h \in Int /\ x \in Int /\ z[h] \in Nat /\ z[x] \in Nat /\ z[x] >= 24 /\ z[h] >= 24
          BY <1>1, <2>2, <4>1, Cells
        <5> QED BY <5>1, <5>2
      <4> QED BY <3>2, <4>2, <1>1
    <3> QED BY <3>1, <3>2
  <2>8. SIZE(m1, x) = z[x] /\ PRE_PTR(m1, x) = x + z[x] - 12
    <3> HIDE DEF m1
    <3>0. Headed(m, z, U, x) /\ Shape(B, z, b) /\ x \in B
      BY <1>1, <1>2, <2>2
    <3>1. SIZE(m, x) = z[x]
      BY <3>0, SizeIs
    <3>2. SIZE(m1, x) = SIZE(m, x)
      BY <2>7, Reads
    <3> QED BY <3>1, <3>2, Reads
  <2>9. NEX_PTR(x) = x - 4
    BY Reads
  <2> HIDE DEF m1
  <2> QED BY <2>1, <2>5, <2>6, <2>8, <2>9 DEF list_push
<1>8. BUCK(r) \in Words /\ x - 4 \in Words /\ x + z[x] - 12 \in Words /\ x \in B /\ x \in Nat
  BY <1>1, Cells, BuckIs, Layout
<1>9. h \in Val /\ x \in Val /\ BDR_OFF \in Val
  BY <1>1, <1>5, <1>8, Layout DEF Val
<1>10. list_push(m, x, r) \in [Words -> Val]
  <2> HIDE DEF m1
  <2> QED BY <1>7, <1>8, <1>9
<1>11. ASSUME NEW a \in Words
       PROVE  list_push(m, x, r)[a] =
                IF a = BUCK(r) THEN x ELSE IF a = x + z[x] - 12 THEN BDR_OFF
                ELSE IF a = x - 4 THEN h ELSE m1[a]
  <2> HIDE DEF m1
  <2> QED BY <1>7, <1>8
<1>12. ASSUME NEW a \in Words
       PROVE  m1[a] = IF h # BDR_OFF /\ a = h + z[h] - 12 THEN x ELSE m[a]
  BY <1>1, <1>6, Cells
<1> HIDE DEF m1
<1> QED BY <1>4, <1>5, <1>10, <1>11, <1>12

\* list_remove, word by word.
LEMMA RemoveIs ==
  ASSUME NEW m, NEW B, NEW z, NEW b, NEW U, NEW F, NEW W, HeapAt(m, B, z, b, U, F, W),
         NEW r \in Ranks, NEW x \in Entry(z, F, r)
  PROVE  /\ list_remove(m, x, r) \in [Words -> Val]
         /\ m[x - 4] \in F \cup {BDR_OFF} /\ m[x + z[x] - 12] \in F \cup {BDR_OFF}
         /\ \A a \in Words : list_remove(m, x, r)[a] =
              IF a = BUCK(r) /\ x = m[BUCK(r)] THEN m[x - 4]
              ELSE IF m[x - 4] # BDR_OFF /\ a = m[x - 4] + z[m[x - 4]] - 12 THEN m[x + z[x] - 12]
              ELSE IF m[x + z[x] - 12] # BDR_OFF /\ a = m[x + z[x] - 12] - 4 THEN m[x - 4]
              ELSE m[a]
<1>1. Shape(B, z, b) /\ m \in [Words -> Val] /\ F \subseteq W /\ W \subseteq B /\ Bordered(m, b)
  BY DEF HeapAt
<1>2. \A p \in W : Headed(m, z, U, p)
  BY DEF HeapAt
<1>3. x \in F /\ x \in W /\ x \in B /\ x \in Int
  BY <1>1, Cells DEF Entry
<1>4. m[x - 4] \in F \cup {BDR_OFF} /\ m[x + z[x] - 12] \in F \cup {BDR_OFF}
  <2>1. Joined(View(m, B, z), B, r, Entry(z, F, r))
    BY DEF HeapAt, Listing, Linked
  <2>2. View(m, B, z).next[x] = m[x - 4] /\ View(m, B, z).prev[x] = m[x + z[x] - 12]
    BY <1>3 DEF View
  <2>3. Entry(z, F, r) \subseteq F
    BY DEF Entry
  <2> QED BY <2>1, <2>2, <2>3 DEF Joined
<1>5. PICK next, prev : next = m[x - 4] /\ prev = m[x + z[x] - 12]
  OBVIOUS
<1>6. /\ next # BDR_OFF => next \in W /\ next \in B
      /\ prev # BDR_OFF => prev \in W /\ prev \in B
      /\ next \in Val /\ prev \in Val
  <2>1. x - 4 \in Words /\ x + z[x] - 12 \in Words
    BY <1>1, <1>3, Cells
  <2> QED BY <1>1, <1>4, <1>5, <2>1
<1> DEFINE m1 == IF prev # BDR_OFF THEN [m EXCEPT ![prev - 4] = next] ELSE m
           m2 == IF next # BDR_OFF THEN [m1 EXCEPT ![next + z[next] - 12] = prev] ELSE m1
<1>7. m1 \in [Words -> Val] /\ \A a \in Words : m1[a] = IF prev # BDR_OFF /\ a = prev - 4 THEN next ELSE m[a]
  BY <1>1, <1>6
<1>8. m2 \in [Words -> Val]
      /\ \A a \in Words : m2[a] = IF next # BDR_OFF /\ a = next + z[next] - 12 THEN prev ELSE m1[a]
  <2> HIDE DEF m1
  <2> QED BY <1>6, <1>7
<1>9. Unlink(m, prev, next) = m2
  <2>1. \A y \in B : y \in W => SIZE(m, y) = z[y] /\ STAT(m, y) # BORDER
    <3> SUFFICES ASSUME NEW y \in B, y \in W PROVE SIZE(m, y) = z[y] /\ STAT(m, y) # BORDER
      OBVIOUS
    <3>1. Headed(m, z, U, y)
      BY <1>2
    <3> QED BY <1>1, <3>1, SizeIs
  <2>2. STAT(m, BDR_OFF) = BORDER
    BY <1>1, BorderIs
  <2>3. m1 = IF STAT(m, prev) # BORDER THEN [m EXCEPT ![NEX_PTR(prev)] = next] ELSE m
    BY <1>6, <2>1, <2>2, Reads
  <2>4. next # BDR_OFF => m1[next - 8] = m[next - 8]
    <3> SUFFICES ASSUME next # BDR_OFF PROVE m1[next - 8] = m[next - 8]
      OBVIOUS
    <3>1. next \in B /\ next - 8 \in Words /\ next \in Int /\ z[next] \in Nat /\ z[next] >= 24
      BY <1>1, <1>6, Cells
    <3>2. prev # BDR_OFF => prev - 4 # next - 8
      <4> SUFFICES ASSUME prev # BDR_OFF PROVE prev - 4 # next - 8
        OBVIOUS
      <4>1. prev \in B /\ prev \in Int /\ z[prev] \in Nat /\ z[prev] >= 24
        BY <1>1, <1>6, Cells
      <4>2. prev = next \/ prev + z[prev] =< next \/ next + z[next] =< prev
        BY <1>1, <3>1, <4>1, Apart
      <4> QED BY <3>1, <4>1, <4>2
    <3> HIDE DEF m1
    <3> QED BY <1>7, <3>1, <3>2
  <2>5. m1[BDR_OFF - 8] = m[BDR_OFF - 8]
    <3>1. prev # BDR_OFF => prev - 4 # BDR_OFF - 8
      BY <1>1, <1>6, Cells, Layout
    <3>2. BDR_OFF - 8 \in Words
      BY <1>1, BorderCells
    <3> HIDE DEF m1
    <3> QED BY <1>7, <3>1, <3>2
  <2>6. next # BDR_OFF => STAT(m1, next) # BORDER /\ PRE_PTR(m1, next) = next + z[next] - 12
    <3> SUFFICES ASSUME next # BDR_OFF
                 PROVE  STAT(m1, next) # BORDER /\ PRE_PTR(m1, next) = next + z[next] - 12
      OBVIOUS
    <3> HIDE DEF m1
    <3>1. SIZE(m1, next) = SIZE(m, next) /\ STAT(m1, next) = STAT(m, next)
      BY <2>4, Reads
    <3>2. SIZE(m, next) = z[next] /\ STAT(m, next) # BORDER
      BY <1>6, <2>1
    <3>3. SIZE(m1, next) = z[next] /\ STAT(m1, next) # BORDER
      BY <3>1, <3>2
    <3> QED BY <3>3, Reads
  <2>7. STAT(m1, BDR_OFF) = BORDER
    <3> HIDE DEF m1
    <3>1. STAT(m1, BDR_OFF) = m1[BDR_OFF - 8] % 8 /\ STAT(m, BDR_OFF) = m[BDR_OFF - 8] % 8
      BY Reads
    <3>2. STAT(m1, BDR_OFF) = STAT(m, BDR_OFF)
      BY <2>5, <3>1
    <3> QED BY <2>2, <3>2
  <2>8. m2 = IF STAT(m1, next) # BORDER THEN [m1 EXCEPT ![PRE_PTR(m1, next)] = prev] ELSE m1
    <3> HIDE DEF m1
    <3> QED BY <2>6, <2>7
  <2> HIDE DEF m1, m2
  <2> QED BY <2>3, <2>8 DEF Unlink
<1>10. BUCK(r) \in Words /\ m2[BUCK(r)] = m[BUCK(r)]
  <2>1. BUCK(r) \in Words /\ BUCK(r) \in Nat /\ BUCK(r) < BDR_OFF - 8 /\ BDR_OFF \in Nat
    BY BuckIs, Layout
  <2>2. prev # BDR_OFF => BUCK(r) # prev - 4
    BY <1>1, <1>6, <2>1, Cells
  <2>3. next # BDR_OFF => BUCK(r) # next + z[next] - 12
    BY <1>1, <1>6, <2>1, Cells
  <2> HIDE DEF m1, m2
  <2> QED BY <1>7, <1>8, <2>1, <2>2, <2>3
<1>11. list_remove(m, x, r) = IF x = m[BUCK(r)] THEN [m2 EXCEPT ![BUCK(r)] = next] ELSE m2
  <2>1. LIST_NEXT(m, x) = next
    BY <1>5, Reads
  <2>2. LIST_PREV(m, x) = prev
    <3>0. Headed(m, z, U, x)
      BY <1>2, <1>3
    <3>1. SIZE(m, x) = z[x]
      BY <1>1, <1>3, <3>0, SizeIs
    <3> QED BY <1>5, <3>1, Reads
  <2>3. LIST(m2, r) = m[BUCK(r)]
    BY <1>10 DEF LIST
  <2> HIDE DEF m1, m2
  <2> QED BY <1>9, <2>1, <2>2, <2>3 DEF list_remove
<1> HIDE DEF m1, m2
<1>12. list_remove(m, x, r) \in [Words -> Val]
  BY <1>6, <1>8, <1>10, <1>11
<1>13. ASSUME NEW a \in Words
       PROVE  list_remove(m, x, r)[a] =
              IF a = BUCK(r) /\ x = m[BUCK(r)] THEN next
              ELSE IF next # BDR_OFF /\ a = next + z[next] - 12 THEN prev
              ELSE IF prev # BDR_OFF /\ a = prev - 4 THEN next
              ELSE m[a]
  <2>1. list_remove(m, x, r)[a] = IF a = BUCK(r) /\ x = m[BUCK(r)] THEN next ELSE m2[a]
    BY <1>8, <1>10, <1>11
  <2> QED BY <1>7, <1>8, <2>1
<1> QED BY <1>4, <1>5, <1>12, <1>13

\* No two links share a word, nor a link and a head.
LEMMA LinksDiffer ==
  ASSUME NEW B, NEW z, NEW b, Shape(B, z, b), NEW p \in B, NEW q \in B, NEW r \in Ranks
  PROVE  /\ p - 4 = q - 4 => p = q
         /\ p + z[p] - 12 = q + z[q] - 12 => p = q
         /\ p - 4 # q + z[q] - 12
         /\ BUCK(r) # p - 4 /\ BUCK(r) # p + z[p] - 12
<1>1. /\ p \in Int /\ z[p] \in Nat /\ z[p] >= 24 /\ q \in Int /\ z[q] \in Nat /\ z[q] >= 24
      /\ p - 8 >= BDR_OFF
  BY Cells
<1>2. p = q \/ p + z[p] =< q \/ q + z[q] =< p
  BY Apart
<1>3. BUCK(r) \in Nat /\ BUCK(r) < BDR_OFF - 8 /\ BDR_OFF \in Nat
  BY BuckIs, Layout
<1> QED BY <1>1, <1>2, <1>3

\* The links of a heap are numbers.
LEMMA ViewTyped ==
  ASSUME NEW B, NEW z, NEW b, Shape(B, z, b), NEW m \in [Words -> Val]
  PROVE  ListsTyped(View(m, B, z), B) /\ B \in SUBSET Int /\ BDR_OFF \notin B
<1>1. B \in SUBSET Int /\ BDR_OFF \notin B
  BY Cells
<1>2. \A r \in Ranks : m[BUCK(r)] \in Int
  BY BuckIs, Values
<1>3. \A p \in B : m[p - 4] \in Int /\ m[p + z[p] - 12] \in Int
  <2> SUFFICES ASSUME NEW p \in B PROVE m[p - 4] \in Int /\ m[p + z[p] - 12] \in Int
    OBVIOUS
  <2>1. p - 4 \in Words /\ p + z[p] - 12 \in Words
    BY Cells
  <2> QED BY <2>1, Values
<1> DEFINE V == View(m, B, z)
<1>4. V.bucket \in [Ranks -> Int]
  BY <1>2 DEF View
<1>5. V.prev \in [B -> Int]
  BY <1>3 DEF View
<1>6. V.next \in [B -> Int]
  BY <1>3 DEF View
<1>7. ListsTyped(V, B)
  <2> HIDE DEF V
  <2> QED BY <1>4, <1>5, <1>6 DEF ListsTyped
<1> QED BY <1>1, <1>7

\* list_push on the words is the push on the links.
LEMMA PushViews ==
  ASSUME NEW m, NEW B, NEW z, NEW b, NEW U, NEW F, NEW W, HeapAt(m, B, z, b, U, F, W),
         NEW x \in W, x \notin F, NEW r \in Ranks
  PROVE  View(list_push(m, x, r), B, z) = Pushed(View(m, B, z), r, x)
<1>1. Shape(B, z, b) /\ m \in [Words -> Val] /\ F \subseteq W /\ W \subseteq B /\ x \in B
  BY DEF HeapAt
<1>2. PICK n : n = list_push(m, x, r)
  OBVIOUS
<1>3. PICK h : h = m[BUCK(r)]
  OBVIOUS
<1>4. /\ h \in F \cup {BDR_OFF}
      /\ \A a \in Words : n[a] = IF a = BUCK(r) THEN x
              ELSE IF a = x + z[x] - 12 THEN BDR_OFF
              ELSE IF a = x - 4 THEN h
              ELSE IF h # BDR_OFF /\ a = h + z[h] - 12 THEN x
              ELSE m[a]
  BY <1>2, <1>3, PushIs
<1>5. h # BDR_OFF => h \in B /\ h # x
  BY <1>1, <1>4
<1>6. ASSUME NEW q \in Ranks
      PROVE  n[BUCK(q)] = IF q = r THEN x ELSE m[BUCK(q)]
  <2>1. BUCK(q) \in Words /\ (BUCK(q) = BUCK(r) <=> q = r)
    BY BuckIs
  <2>2. BUCK(q) # x + z[x] - 12 /\ BUCK(q) # x - 4
    BY <1>1, LinksDiffer
  <2>3. h # BDR_OFF => BUCK(q) # h + z[h] - 12
    BY <1>1, <1>5, LinksDiffer
  <2> QED BY <1>4, <2>1, <2>2, <2>3
<1>7. ASSUME NEW p \in B
      PROVE  n[p - 4] = IF p = x THEN h ELSE m[p - 4]
  <2>1. p - 4 \in Words /\ p - 4 # BUCK(r) /\ p - 4 # x + z[x] - 12 /\ (p - 4 = x - 4 <=> p = x)
    BY <1>1, Cells, LinksDiffer
  <2>2. h # BDR_OFF => p - 4 # h + z[h] - 12
    BY <1>1, <1>5, LinksDiffer
  <2> QED BY <1>4, <2>1, <2>2
<1>8. ASSUME NEW p \in B
      PROVE  n[p + z[p] - 12] = IF p = x THEN BDR_OFF
                                ELSE IF h # BDR_OFF /\ p = h THEN x ELSE m[p + z[p] - 12]
  <2>1. /\ p + z[p] - 12 \in Words /\ p + z[p] - 12 # BUCK(r)
        /\ p + z[p] - 12 = x + z[x] - 12 <=> p = x
        /\ x - 4 # p + z[p] - 12
    BY <1>1, Cells, LinksDiffer
  <2>2. h # BDR_OFF => (p + z[p] - 12 = h + z[h] - 12 <=> p = h)
    BY <1>1, <1>5, LinksDiffer
  <2> QED BY <1>4, <2>1, <2>2
<1> DEFINE L == View(m, B, z)
<1>9. L.bucket = [q \in Ranks |-> m[BUCK(q)]] /\ L.next = [p \in B |-> m[p - 4]]
      /\ L.prev = [p \in B |-> m[p + z[p] - 12]]
  BY DEF View
<1>10. [q \in Ranks |-> n[BUCK(q)]] = [L.bucket EXCEPT ![r] = x]
  BY <1>6, <1>9
<1>11. [p \in B |-> n[p - 4]] = [L.next EXCEPT ![x] = L.bucket[r]]
  BY <1>1, <1>3, <1>7, <1>9
<1>12. [p \in B |-> n[p + z[p] - 12]] = Store([L.prev EXCEPT ![x] = BDR_OFF], L.bucket[r], x)
  <2>1. L.bucket[r] = h
    BY <1>3, <1>9
  <2>2. CASE h = BDR_OFF
    <3>1. [p \in B |-> n[p + z[p] - 12]] = [L.prev EXCEPT ![x] = BDR_OFF]
      BY <1>1, <1>8, <1>9, <2>2
    <3> QED BY <2>1, <2>2, <3>1 DEF Store
  <2>3. CASE h # BDR_OFF
    <3>1. [p \in B |-> n[p + z[p] - 12]] = [[L.prev EXCEPT ![x] = BDR_OFF] EXCEPT ![h] = x]
      BY <1>1, <1>5, <1>8, <1>9, <2>3
    <3> QED BY <2>1, <2>3, <3>1 DEF Store
  <2> QED BY <2>2, <2>3
<1>13. View(n, B, z) = [bucket |-> [q \in Ranks |-> n[BUCK(q)]],
                        prev |-> [p \in B |-> n[p + z[p] - 12]], next |-> [p \in B |-> n[p - 4]]]
  BY DEF View
<1> HIDE DEF L
<1>14. View(n, B, z) = Pushed(L, r, x)
  BY <1>10, <1>11, <1>12, <1>13 DEF Pushed
<1> QED BY <1>2, <1>14 DEF L

\* list_remove on the words is the removal on the links.
LEMMA RemoveViews ==
  ASSUME NEW m, NEW B, NEW z, NEW b, NEW U, NEW F, NEW W, HeapAt(m, B, z, b, U, F, W),
         NEW r \in Ranks, NEW x \in Entry(z, F, r)
  PROVE  View(list_remove(m, x, r), B, z) = Removed(View(m, B, z), r, x)
<1>1. Shape(B, z, b) /\ m \in [Words -> Val] /\ F \subseteq B /\ x \in B
  BY DEF HeapAt, Entry
<1>2. PICK n : n = list_remove(m, x, r)
  OBVIOUS
<1>3. PICK next, prev : next = m[x - 4] /\ prev = m[x + z[x] - 12]
  OBVIOUS
<1>4. /\ next \in F \cup {BDR_OFF} /\ prev \in F \cup {BDR_OFF}
      /\ \A a \in Words : n[a] =
              IF a = BUCK(r) /\ x = m[BUCK(r)] THEN next
              ELSE IF next # BDR_OFF /\ a = next + z[next] - 12 THEN prev
              ELSE IF prev # BDR_OFF /\ a = prev - 4 THEN next
              ELSE m[a]
  BY <1>2, <1>3, RemoveIs
<1>5. (next # BDR_OFF => next \in B) /\ (prev # BDR_OFF => prev \in B)
  BY <1>1, <1>4
<1>6. ASSUME NEW q \in Ranks
      PROVE  n[BUCK(q)] = IF q = r /\ x = m[BUCK(r)] THEN next ELSE m[BUCK(q)]
  <2>1. BUCK(q) \in Words /\ (BUCK(q) = BUCK(r) <=> q = r)
    BY BuckIs
  <2>2. next # BDR_OFF => BUCK(q) # next + z[next] - 12
    BY <1>1, <1>5, LinksDiffer
  <2>3. prev # BDR_OFF => BUCK(q) # prev - 4
    BY <1>1, <1>5, LinksDiffer
  <2> QED BY <1>4, <2>1, <2>2, <2>3
<1>7. ASSUME NEW p \in B
      PROVE  n[p - 4] = IF prev # BDR_OFF /\ p = prev THEN next ELSE m[p - 4]
  <2>1. p - 4 \in Words /\ p - 4 # BUCK(r)
    BY <1>1, Cells, LinksDiffer
  <2>2. next # BDR_OFF => p - 4 # next + z[next] - 12
    BY <1>1, <1>5, LinksDiffer
  <2>3. prev # BDR_OFF => (p - 4 = prev - 4 <=> p = prev)
    BY <1>1, <1>5, LinksDiffer
  <2> QED BY <1>4, <2>1, <2>2, <2>3
<1>8. ASSUME NEW p \in B
      PROVE  n[p + z[p] - 12] = IF next # BDR_OFF /\ p = next THEN prev ELSE m[p + z[p] - 12]
  <2>1. p + z[p] - 12 \in Words /\ p + z[p] - 12 # BUCK(r)
    BY <1>1, Cells, LinksDiffer
  <2>2. next # BDR_OFF => (p + z[p] - 12 = next + z[next] - 12 <=> p = next)
    BY <1>1, <1>5, LinksDiffer
  <2>3. prev # BDR_OFF => prev - 4 # p + z[p] - 12
    BY <1>1, <1>5, LinksDiffer
  <2> QED BY <1>4, <2>1, <2>2, <2>3
<1> DEFINE L == View(m, B, z)
<1>9. L.bucket = [q \in Ranks |-> m[BUCK(q)]] /\ L.next = [p \in B |-> m[p - 4]]
      /\ L.prev = [p \in B |-> m[p + z[p] - 12]]
  BY DEF View
<1>10. L.next[x] = next /\ L.prev[x] = prev /\ L.bucket[r] = m[BUCK(r)]
  BY <1>1, <1>3, <1>9
<1>11. [q \in Ranks |-> n[BUCK(q)]] = IF x = L.bucket[r] THEN [L.bucket EXCEPT ![r] = L.next[x]]
                                      ELSE L.bucket
  <2>1. CASE x = m[BUCK(r)]
    BY <1>6, <1>9, <1>10, <2>1
  <2>2. CASE x # m[BUCK(r)]
    BY <1>6, <1>9, <1>10, <2>2
  <2> QED BY <2>1, <2>2
<1>12. [p \in B |-> n[p - 4]] = Store(L.next, L.prev[x], L.next[x])
  <2>1. CASE prev = BDR_OFF
    BY <1>7, <1>9, <1>10, <2>1 DEF Store
  <2>2. CASE prev # BDR_OFF
    <3>1. [p \in B |-> n[p - 4]] = [L.next EXCEPT ![prev] = next]
      BY <1>5, <1>7, <1>9, <2>2
    <3> QED BY <1>10, <2>2, <3>1 DEF Store
  <2> QED BY <2>1, <2>2
<1>13. [p \in B |-> n[p + z[p] - 12]] = Store(L.prev, L.next[x], L.prev[x])
  <2>1. CASE next = BDR_OFF
    BY <1>8, <1>9, <1>10, <2>1 DEF Store
  <2>2. CASE next # BDR_OFF
    <3>1. [p \in B |-> n[p + z[p] - 12]] = [L.prev EXCEPT ![next] = prev]
      BY <1>5, <1>8, <1>9, <2>2
    <3> QED BY <1>10, <2>2, <3>1 DEF Store
  <2> QED BY <2>1, <2>2
<1>14. View(n, B, z) = [bucket |-> [q \in Ranks |-> n[BUCK(q)]],
                        prev |-> [p \in B |-> n[p + z[p] - 12]], next |-> [p \in B |-> n[p - 4]]]
  BY DEF View
<1> HIDE DEF L
<1>15. View(n, B, z) = Removed(L, r, x)
  BY <1>11, <1>12, <1>13, <1>14 DEF Removed
<1> QED BY <1>2, <1>15 DEF L

\* The entries of the ranks when list_remove takes a block out.
LEMMA EntryLess ==
  ASSUME NEW z, NEW F, NEW x \in F, NEW r, r = get_rank(z[x])
  PROVE  /\ x \in Entry(z, F, r)
         /\ Entry(z, F \ {x}, r) = Entry(z, F, r) \ {x}
         /\ \A q : q # r => /\ Entry(z, F \ {x}, q) = Entry(z, F, q)
                            /\ Entry(z, F, q) \cap Entry(z, F, r) = {}
BY DEF Entry

\* The headers and footers that no word written belongs to.
LEMMA HeadsStay ==
  ASSUME NEW m, NEW n, NEW B, NEW z, NEW b, NEW U, NEW W, W \subseteq B,
         Bordered(m, b), \A p \in W : Headed(m, z, U, p), SameHeads(m, n, B, z, b)
  PROVE  Bordered(n, b) /\ \A p \in W : Headed(n, z, U, p)
BY DEF SameHeads, Bordered, Headed

\* list_push of a block with its header, under the rank of its size, keeps the heap.
LEMMA PushKeeps ==
  ASSUME NEW m, NEW B, NEW z, NEW b, NEW U, NEW F, NEW W, HeapAt(m, B, z, b, U, F, W),
         NEW x \in W, x \notin F
  PROVE  LET n == list_push(m, x, get_rank(z[x]))
         IN  HeapAt(n, B, z, b, U, F \cup {x}, W) /\ Kept(m, n, B, z) /\ SameHeads(m, n, B, z, b)
<1> DEFINE r == get_rank(z[x])  n == list_push(m, x, r)
<1>0. r \in Ranks
  BY RankIs
<1>1. /\ Shape(B, z, b) /\ m \in [Words -> Val] /\ F \subseteq W /\ W \subseteq B /\ U \subseteq B
      /\ Bordered(m, b) /\ \A p \in W : Headed(m, z, U, p)
  BY DEF HeapAt
<1>10. /\ x \notin Entry(z, F, r)
       /\ Entry(z, F \cup {x}, r) = Entry(z, F, r) \cup {x}
       /\ \A q : q # r => /\ Entry(z, F \cup {x}, q) = Entry(z, F, q)
                          /\ Entry(z, F, q) \cap (Entry(z, F, r) \cup {x}) = {}
  <2>1. x \notin F /\ r = get_rank(z[x])
    OBVIOUS
  <2> HIDE DEF r, n
  <2>2. x \notin Entry(z, F, r)
    BY <2>1 DEF Entry
  <2>3. Entry(z, F \cup {x}, r) = Entry(z, F, r) \cup {x}
    BY <2>1 DEF Entry
  <2>4. \A q : q # r => Entry(z, F \cup {x}, q) = Entry(z, F, q)
    BY <2>1 DEF Entry
  <2>5. \A q : q # r => Entry(z, F, q) \cap (Entry(z, F, r) \cup {x}) = {}
    BY <2>1 DEF Entry
  <2> QED BY <2>2, <2>3, <2>4, <2>5
<1> HIDE DEF r
<1>2. PICK h \in F \cup {BDR_OFF} :
           /\ n \in [Words -> Val]
           /\ \A a \in Words : n[a] = IF a = BUCK(r) THEN x
              ELSE IF a = x + z[x] - 12 THEN BDR_OFF
              ELSE IF a = x - 4 THEN h
              ELSE IF h # BDR_OFF /\ a = h + z[h] - 12 THEN x
              ELSE m[a]
  BY <1>0, PushIs
<1> HIDE DEF n
<1>3. \A a \in Words : LinkCell(B, z, a) \/ n[a] = m[a]
  BY <1>0, <1>1, <1>2 DEF LinkCell
<1>4. SameHeads(m, n, B, z, b) /\ Kept(m, n, B, z)
  BY <1>1, <1>3, LinksOnly
<1>5. Bordered(n, b) /\ \A p \in W : Headed(n, z, U, p)
  BY <1>1, <1>4, HeadsStay
<1>6. View(n, B, z) = Pushed(View(m, B, z), r, x)
  BY <1>0, PushViews DEF n
<1>7. ListsTyped(View(m, B, z), B) /\ B \in SUBSET Int /\ BDR_OFF \notin B
  BY <1>1, ViewTyped
<1>8. Listing(n, B, z, F \cup {x})
  <2>1. \A q \in Ranks : Linked(View(m, B, z), B, q, Entry(z, F, q))
    BY DEF HeapAt, Listing
  <2>2. /\ x \notin Entry(z, F, r)
        /\ Entry(z, F \cup {x}, r) = Entry(z, F, r) \cup {x}
        /\ \A q : q # r => /\ Entry(z, F \cup {x}, q) = Entry(z, F, q)
                            /\ Entry(z, F, q) \cap (Entry(z, F, r) \cup {x}) = {}
    BY <1>10
  <2>3. x \in B
    BY <1>1
  <2>4. /\ Linked(Pushed(View(m, B, z), r, x), B, r, Entry(z, F, r) \cup {x})
        /\ \A q \in Ranks : \A T : q # r /\ Linked(View(m, B, z), B, q, T) /\ T \cap (Entry(z, F, r) \cup {x}) = {}
              => Linked(Pushed(View(m, B, z), r, x), B, q, T)
    BY <1>0, <1>7, <2>1, <2>2, <2>3, PushLinks
  <2>5. ASSUME NEW q \in Ranks
        PROVE  Linked(Pushed(View(m, B, z), r, x), B, q, Entry(z, F \cup {x}, q))
    <3>1. CASE q = r
      BY <2>2, <2>4, <3>1
    <3>2. CASE q # r
      BY <2>1, <2>2, <2>4, <3>2
    <3> QED BY <3>1, <3>2
  <2> QED BY <1>6, <2>5 DEF Listing
<1>9. HeapAt(n, B, z, b, U, F \cup {x}, W)
  <2>1. F \cup {x} \subseteq W
    BY <1>1
  <2> QED BY <1>1, <1>2, <1>5, <1>8, <2>1 DEF HeapAt
<1> QED BY <1>4, <1>9 DEF n, r

\* list_remove of a listed block, under the rank of its size, keeps the heap.
LEMMA RemoveKeeps ==
  ASSUME NEW m, NEW B, NEW z, NEW b, NEW U, NEW F, NEW W, HeapAt(m, B, z, b, U, F, W),
         NEW x \in F
  PROVE  LET n == list_remove(m, x, get_rank(z[x]))
         IN  HeapAt(n, B, z, b, U, F \ {x}, W) /\ Kept(m, n, B, z) /\ SameHeads(m, n, B, z, b)
<1> DEFINE r == get_rank(z[x])  n == list_remove(m, x, r)
<1>0. r \in Ranks
  BY RankIs
<1>1. /\ Shape(B, z, b) /\ m \in [Words -> Val] /\ F \subseteq W /\ W \subseteq B /\ U \subseteq B
      /\ Bordered(m, b) /\ \A p \in W : Headed(m, z, U, p)
  BY DEF HeapAt
<1>2. /\ x \in Entry(z, F, r)
      /\ Entry(z, F \ {x}, r) = Entry(z, F, r) \ {x}
      /\ \A q : q # r => /\ Entry(z, F \ {x}, q) = Entry(z, F, q)
                         /\ Entry(z, F, q) \cap Entry(z, F, r) = {}
  BY EntryLess
<1> HIDE DEF r
<1>3. PICK next \in F \cup {BDR_OFF}, prev \in F \cup {BDR_OFF} :
           /\ n \in [Words -> Val]
           /\ \A a \in Words : n[a] =
              IF a = BUCK(r) /\ x = m[BUCK(r)] THEN next
              ELSE IF next # BDR_OFF /\ a = next + z[next] - 12 THEN prev
              ELSE IF prev # BDR_OFF /\ a = prev - 4 THEN next
              ELSE m[a]
  BY <1>0, <1>2, RemoveIs
<1> HIDE DEF n
<1>4. \A a \in Words : LinkCell(B, z, a) \/ n[a] = m[a]
  BY <1>0, <1>1, <1>3 DEF LinkCell
<1>5. SameHeads(m, n, B, z, b) /\ Kept(m, n, B, z)
  BY <1>1, <1>4, LinksOnly
<1>6. Bordered(n, b) /\ \A p \in W : Headed(n, z, U, p)
  BY <1>1, <1>5, HeadsStay
<1>7. View(n, B, z) = Removed(View(m, B, z), r, x)
  BY <1>0, <1>2, RemoveViews DEF n
<1>8. ListsTyped(View(m, B, z), B) /\ B \in SUBSET Int /\ BDR_OFF \notin B
  BY <1>1, ViewTyped
<1>9. Listing(n, B, z, F \ {x})
  <2>1. \A q \in Ranks : Linked(View(m, B, z), B, q, Entry(z, F, q))
    BY DEF HeapAt, Listing
  <2>2. /\ Linked(Removed(View(m, B, z), r, x), B, r, Entry(z, F, r) \ {x})
        /\ \A q \in Ranks : \A T : q # r /\ Linked(View(m, B, z), B, q, T) /\ T \cap Entry(z, F, r) = {}
              => Linked(Removed(View(m, B, z), r, x), B, q, T)
    BY <1>0, <1>2, <1>8, <2>1, RemoveLinks
  <2>3. ASSUME NEW q \in Ranks
        PROVE  Linked(Removed(View(m, B, z), r, x), B, q, Entry(z, F \ {x}, q))
    <3>1. CASE q = r
      BY <1>2, <2>2, <3>1
    <3>2. CASE q # r
      BY <1>2, <2>1, <2>2, <3>2
    <3> QED BY <3>1, <3>2
  <2> QED BY <1>7, <2>3 DEF Listing
<1>10. HeapAt(n, B, z, b, U, F \ {x}, W)
  <2>1. F \ {x} \subseteq W
    BY <1>1
  <2> QED BY <1>1, <1>3, <1>6, <1>9, <2>1 DEF HeapAt
<1> QED BY <1>5, <1>10 DEF n, r

\* A list depends on its head and on the links of its entries alone.
LEMMA LinkedSame ==
  ASSUME NEW L, NEW M, NEW B, NEW C, NEW r, NEW S, Linked(L, B, r, S), S \subseteq C,
         M.bucket[r] = L.bucket[r],
         \A p \in S : M.next[p] = L.next[p] /\ M.prev[p] = L.prev[p]
  PROVE  Linked(M, C, r, S)
<1>1. Joined(L, B, r, S)
  BY DEF Linked
<1>2. Joined(M, C, r, S)
  BY <1>1 DEF Joined
<1>3. PICK N, s : InLine(L, r, S, N, s)
  BY DEF Linked
<1>4. \A i \in 1..N : s[i] \in S
  BY <1>3 DEF InLine
<1>5. InLine(M, r, S, N, s)
  BY <1>3, <1>4 DEF InLine
<1> QED BY <1>2, <1>5 DEF Linked

\* So do all the lists: words that are neither leave them as they were.
LEMMA ListingSame ==
  ASSUME NEW m, NEW n, NEW B, NEW z, NEW C, NEW y, NEW F, Listing(m, B, z, F),
         F \subseteq B, F \subseteq C, \A p \in F : y[p] = z[p],
         \A r \in Ranks : n[BUCK(r)] = m[BUCK(r)],
         \A p \in F : n[p - 4] = m[p - 4] /\ n[p + z[p] - 12] = m[p + z[p] - 12]
  PROVE  Listing(n, C, y, F)
<1> SUFFICES ASSUME NEW r \in Ranks PROVE Linked(View(n, C, y), C, r, Entry(y, F, r))
  BY DEF Listing
<1>1. Linked(View(m, B, z), B, r, Entry(z, F, r))
  BY DEF Listing
<1>2. Entry(y, F, r) = Entry(z, F, r)
  BY DEF Entry
<1> DEFINE S == Entry(z, F, r)
<1>3. S \subseteq F
  BY DEF Entry
<1>4. View(n, C, y).bucket[r] = View(m, B, z).bucket[r]
  BY DEF View
<1>5. \A p \in S : /\ View(n, C, y).next[p] = View(m, B, z).next[p]
                   /\ View(n, C, y).prev[p] = View(m, B, z).prev[p]
  BY <1>3 DEF View
<1> HIDE DEF S
<1>6. Linked(View(n, C, y), C, r, S)
  <2>1. S \subseteq C /\ Linked(View(m, B, z), B, r, S)
    BY <1>1, <1>3 DEF S
  <2> QED BY <1>4, <1>5, <2>1, LinkedSame
<1> QED BY <1>2, <1>6 DEF S

\* Writing header and footer of a block that is in no list keeps the lists, and the
\* blocks the new one does not overlap.
LEMMA MarkKeeps ==
  ASSUME NEW m, NEW B, NEW z, NEW b, NEW U, NEW F, NEW W, HeapAt(m, B, z, b, U, F, W),
         NEW x \in B, NEW V \in SUBSET B, \A p \in B : p # x => (p \in V <=> p \in U)
  PROVE  LET n == Mark(m, x, z[x], IF x \in V THEN USED ELSE UNUSED)
         IN  HeapAt(n, B, z, b, V, F, W \cup {x}) /\ Kept(m, n, B, z)
<1> DEFINE st == IF x \in V THEN USED ELSE UNUSED
           n == Mark(m, x, z[x], st)
<1>1. /\ Shape(B, z, b) /\ m \in [Words -> Val] /\ F \subseteq W /\ W \subseteq B
      /\ Bordered(m, b) /\ Listing(m, B, z, F)
  BY DEF HeapAt
<1>2. \A p \in W : Headed(m, z, U, p)
  BY DEF HeapAt
<1>3. ZIP(z[x], st) = Head(z, V, x) /\ Head(z, V, x) \in Val
  <2>1. Head(z, V, x) \in Nat
    BY <1>1, HeadIs
  <2> QED BY <2>1 DEF Head, Val
<1>4. n = [m EXCEPT ![x - 8] = Head(z, V, x), ![x + z[x] - 16] = Head(z, V, x)]
  <2>1. 2 * WORD_SIZE = 8 /\ 4 * WORD_SIZE = 16
    BY DEF WORD_SIZE
  <2>2. n = [m EXCEPT ![x - 8] = ZIP(z[x], st), ![x + z[x] - 16] = ZIP(z[x], st)]
    BY <2>1, Zenon DEF Mark, HDR_PTR
  <2> HIDE DEF n, st
  <2> QED BY <1>3, <2>2, Zenon
<1> HIDE DEF n, st
<1>5. /\ n \in [Words -> Val]
      /\ \A a \in Words : n[a] = IF a = x - 8 \/ a = x + z[x] - 16 THEN Head(z, V, x) ELSE m[a]
  BY <1>1, <1>3, <1>4
<1>6. \A p \in B : /\ p \in Int /\ z[p] \in Nat /\ z[p] >= 24 /\ p - 8 >= BDR_OFF
                   /\ p + z[p] =< b
                   /\ p - 8 \in Words /\ p - 4 \in Words
                   /\ p + z[p] - 16 \in Words /\ p + z[p] - 12 \in Words
  BY <1>1, Cells
<1>7. b \in Int /\ BDR_OFF \in Nat /\ b - 8 \in Words /\ BDR_OFF - 8 \in Words
  BY <1>1, BorderCells, Layout
<1>8. ASSUME NEW p \in B
      PROVE  /\ p # x => n[p - 8] = m[p - 8] /\ n[p + z[p] - 16] = m[p + z[p] - 16]
             /\ n[p - 4] = m[p - 4] /\ n[p + z[p] - 12] = m[p + z[p] - 12]
             /\ \A a \in Words : p =< a /\ a < p + z[p] - 16 => n[a] = m[a]
  <2>1. p = x \/ p + z[p] =< x \/ x + z[x] =< p
    BY <1>1, Apart
  <2>2. PICK i \in Int, j \in Int, s \in Nat, t \in Nat :
             i = p /\ j = x /\ s = z[p] /\ t = z[x] /\ s >= 24 /\ t >= 24
    BY <1>6
  <2>3. (i = j /\ s = t) \/ i + s =< j \/ j + t =< i
    BY <2>1, <2>2
  <2>4. /\ i # j => i - 8 # j - 8 /\ i - 8 # j + t - 16 /\ i + s - 16 # j - 8 /\ i + s - 16 # j + t - 16
        /\ i - 4 # j - 8 /\ i - 4 # j + t - 16 /\ i + s - 12 # j - 8 /\ i + s - 12 # j + t - 16
        /\ \A a \in Words : i =< a /\ a < i + s - 16 => a # j - 8 /\ a # j + t - 16
    BY <2>2, <2>3 DEF Words
  <2>5. /\ p # x => p - 8 # x - 8 /\ p - 8 # x + z[x] - 16 /\ p + z[p] - 16 # x - 8 /\ p + z[p] - 16 # x + z[x] - 16
        /\ p - 4 # x - 8 /\ p - 4 # x + z[x] - 16 /\ p + z[p] - 12 # x - 8 /\ p + z[p] - 12 # x + z[x] - 16
        /\ \A a \in Words : p =< a /\ a < p + z[p] - 16 => a # x - 8 /\ a # x + z[x] - 16
    BY <2>2, <2>4
  <2> QED BY <1>5, <1>6, <2>5
<1>9. Bordered(n, b)
  <2>1. BDR_OFF - 8 # x - 8 /\ BDR_OFF - 8 # x + z[x] - 16 /\ b - 8 # x - 8 /\ b - 8 # x + z[x] - 16
    BY <1>6, <1>7
  <2>2. n[BDR_OFF - 8] = m[BDR_OFF - 8] /\ n[b - 8] = m[b - 8]
    BY <1>5, <1>7, <2>1
  <2> QED BY <1>1, <2>2 DEF Bordered
<1>10. ASSUME NEW p \in W \cup {x}
       PROVE  Headed(n, z, V, p)
  <2>1. CASE p = x
    BY <1>5, <1>6, <2>1 DEF Headed
  <2>2. CASE p # x
    <3>1. p \in B /\ p \in W
      BY <1>1, <2>2
    <3>2. Headed(m, z, U, p)
      BY <1>2, <3>1
    <3>3. Head(z, V, p) = Head(z, U, p)
      BY <2>2, <3>1 DEF Head
    <3>4. n[p - 8] = m[p - 8] /\ n[p + z[p] - 16] = m[p + z[p] - 16]
      BY <1>8, <2>2, <3>1
    <3> QED BY <3>2, <3>3, <3>4 DEF Headed
  <2> QED BY <2>1, <2>2
<1>11. Listing(n, B, z, F)
  <2>1. \A r \in Ranks : n[BUCK(r)] = m[BUCK(r)]
    <3> SUFFICES ASSUME NEW r \in Ranks PROVE n[BUCK(r)] = m[BUCK(r)]
      OBVIOUS
    <3>1. BUCK(r) \in Words /\ BUCK(r) \in Nat /\ BUCK(r) < BDR_OFF - 8
      BY BuckIs
    <3>2. BUCK(r) # x - 8 /\ BUCK(r) # x + z[x] - 16
      BY <1>6, <1>7, <3>1
    <3> QED BY <1>5, <3>1, <3>2
  <2>2. \A p \in F : n[p - 4] = m[p - 4] /\ n[p + z[p] - 12] = m[p + z[p] - 12]
    BY <1>1, <1>8
  <2>3. F \subseteq B /\ \A p \in F : z[p] = z[p]
    BY <1>1
  <2> QED BY <1>1, <2>1, <2>2, <2>3, ListingSame
<1>12. Kept(m, n, B, z)
  BY <1>8 DEF Kept
<1>13. HeapAt(n, B, z, b, V, F, W \cup {x})
  <2>1. V \subseteq B /\ F \subseteq W \cup {x} /\ W \cup {x} \subseteq B
    BY <1>1
  <2> QED BY <1>1, <1>5, <1>9, <1>10, <1>11, <2>1 DEF HeapAt
<1> QED BY <1>12, <1>13 DEF n, st

\* The same memory with other blocks: those that stay keep header and links.
Reshape(z, U, F, W, C, y, V, X) ==
  /\ F \subseteq X /\ X \subseteq W /\ X \subseteq C /\ V \subseteq C
  /\ \A p \in X : y[p] = z[p] /\ (p \in V <=> p \in U)

\* A heap whose blocks were cut or joined is a heap again.
LEMMA Reshaped ==
  ASSUME NEW m, NEW B, NEW z, NEW b, NEW U, NEW F, NEW W, HeapAt(m, B, z, b, U, F, W),
         NEW C, NEW y, Shape(C, y, b), NEW X, NEW V, Reshape(z, U, F, W, C, y, V, X)
  PROVE  HeapAt(m, C, y, b, V, F, X)
<1>0. /\ F \subseteq X /\ X \subseteq W /\ X \subseteq C /\ V \subseteq C
      /\ \A p \in X : y[p] = z[p] /\ (p \in V <=> p \in U)
  BY DEF Reshape
<1>1. /\ m \in [Words -> Val] /\ F \subseteq W /\ W \subseteq B
      /\ Bordered(m, b) /\ Listing(m, B, z, F)
  BY DEF HeapAt
<1>2. ASSUME NEW p \in X PROVE Headed(m, y, V, p)
  <2>1. Headed(m, z, U, p)
    BY <1>0 DEF HeapAt
  <2> QED BY <1>0, <2>1 DEF Headed, Head
<1>3. Listing(m, C, y, F)
  <2>1. F \subseteq B /\ F \subseteq C /\ \A p \in F : y[p] = z[p]
    BY <1>0, <1>1
  <2> QED BY <1>0, <1>1, <2>1, ListingSame
<1> QED BY <1>0, <1>1, <1>2, <1>3 DEF HeapAt

-----------------------------------------------------------------------------
(* The blocks that split, coalesce, extend and mm_init leave.              *)

\* The sizes after split, coalesce and extend.
Halved(B, z, p, s) ==
  [q \in B \cup {p + s} |-> IF q = p THEN s ELSE IF q = p + s THEN z[p] - s ELSE z[q]]

Fused(B, z, x, w) == [q \in B \ {w} |-> IF q = x THEN z[x] + z[w] ELSE z[q]]

Grown(B, z, b, s) == [q \in B \cup {b} |-> IF q = b THEN s ELSE z[q]]

\* split cuts a block in two: the blocks still tile the heap.
LEMMA SplitShape ==
  ASSUME NEW B, NEW z, NEW b, Shape(B, z, b), NEW p \in B,
         NEW s \in Nat, s % 8 = 0, s > 16, z[p] - s > 16
  PROVE  p + s \notin B /\ p + s # p /\ Shape(B \cup {p + s}, Halved(B, z, p, s), b)
<1>1. /\ B \in SUBSET Int /\ z \in [B -> Nat] /\ b \in Int /\ b % 8 = 0 /\ FirstBlock =< b /\ b =< MaxHeap
      /\ FirstBlock \in Int /\ FirstBlock \in B \cup {b}
  BY Layout DEF Shape
<1>a. \A q \in B : q % 8 = 0 /\ z[q] % 8 = 0
  BY DEF Shape
<1>b. \A q \in B : q \in Int /\ z[q] \in Nat /\ z[q] > 16 /\ FirstBlock =< q /\ q + z[q] =< b
  BY DEF Shape
<1>c. \A q \in B : q + z[q] \in B \cup {b}
  BY DEF Shape
<1>d. \A q, t \in B : q < t => q + z[q] =< t
  BY DEF Shape
<1>e. \A q \in B \cup {b} : q = FirstBlock \/ \E t \in B : q = t + z[t]
  BY DEF Shape
<1>2. PICK o \in Int, k \in Nat : o = p + s /\ k = z[p] - s /\ k % 8 = 0 /\ k > 16 /\ o % 8 = 0
                                  /\ o + k = p + z[p] /\ p \in Int /\ p < o /\ FirstBlock \in Int
  <2>1. p \in Int /\ z[p] \in Nat /\ z[p] % 8 = 0 /\ p % 8 = 0
    BY <1>a, <1>b
  <2>2. (z[p] - s) % 8 = 0 /\ (p + s) % 8 = 0
    BY <2>1
  <2> QED BY <2>1, <2>2, Layout
<1>3. \A t \in B : t =< p \/ o + k =< t
  BY <1>2, <1>b, <1>d
<1>4. o \notin B /\ o # p /\ o < b
  <2>1. o + k =< b /\ b \in Int
    BY <1>1, <1>2, <1>b
  <2> QED BY <1>2, <1>3, <1>b, <2>1
<1> DEFINE C == B \cup {o}  y == Halved(B, z, p, s)
<1>5. y = [q \in C |-> IF q = p THEN s ELSE IF q = o THEN k ELSE z[q]]
  BY <1>2 DEF Halved
<1>6. /\ y[p] = s /\ y[o] = k /\ \A q \in B : q # p => y[q] = z[q]
      /\ y \in [C -> Nat] /\ C \in SUBSET Int
  BY <1>1, <1>2, <1>4, <1>5
<1> HIDE DEF y
<1>7. ASSUME NEW q \in C
      PROVE  /\ q % 8 = 0 /\ FirstBlock =< q /\ y[q] % 8 = 0 /\ y[q] > 16
             /\ q + y[q] =< b /\ q + y[q] \in C \cup {b}
  <2>1. CASE q = p
    <3>1. q % 8 = 0 /\ FirstBlock =< q
      BY <1>a, <1>b, <2>1
    <3>2. q + y[q] = o /\ y[q] = s
      BY <1>2, <1>6, <2>1
    <3> QED BY <1>1, <1>2, <1>4, <3>1, <3>2
  <2>2. CASE q = o
    <3>1. q + y[q] = p + z[p] /\ y[q] = k
      BY <1>2, <1>6, <2>2
    <3>2. p + z[p] \in B \cup {b} /\ p + z[p] =< b
      BY <1>b, <1>c
    <3>3. FirstBlock =< p
      BY <1>b
    <3> QED BY <1>1, <1>2, <2>2, <3>1, <3>2, <3>3
  <2>3. CASE q # p /\ q # o
    BY <1>6, <1>a, <1>b, <1>c, <2>3
  <2> QED BY <2>1, <2>2, <2>3
<1>8. ASSUME NEW q \in C, NEW t \in C, q < t
      PROVE  q + y[q] =< t
  <2>1. CASE q = p
    <3>1. q + y[q] = o
      BY <1>2, <1>6, <2>1
    <3>2. t = o \/ o + k =< t
      BY <1>2, <1>3, <1>8, <1>b, <2>1
    <3>3. t \in Int
      BY <1>2, <1>b
    <3> QED BY <1>2, <3>1, <3>2, <3>3
  <2>2. CASE q = o
    <3>1. q + y[q] = o + k
      BY <1>6, <2>2
    <3>2. t \in B
      BY <1>2, <1>8, <2>2
    <3> QED BY <1>2, <1>3, <1>8, <1>b, <2>2, <3>1, <3>2
  <2>3. CASE q # p /\ q # o
    <3>1. q \in B /\ y[q] = z[q]
      BY <1>6, <2>3
    <3>2. CASE t = o
      <4>1. q < p
        <5>1. q =< p \/ o + k =< q
          BY <1>3, <3>1
        <5>2. q \in Int /\ q < o
          BY <1>8, <1>b, <3>1, <3>2
        <5> QED BY <1>2, <2>3, <5>1, <5>2
      <4>2. q + z[q] =< p /\ q + z[q] \in Int
        BY <1>b, <1>d, <3>1, <4>1
      <4> QED BY <1>2, <3>1, <3>2, <4>2
    <3>3. CASE t # o
      BY <1>8, <1>d, <3>1, <3>3
    <3> QED BY <3>2, <3>3
  <2> QED BY <2>1, <2>2, <2>3
<1>9. FirstBlock \in C \cup {b}
  BY <1>1
<1>10. ASSUME NEW q \in C \cup {b}
       PROVE  q = FirstBlock \/ \E t \in C : q = t + y[t]
  <2>1. CASE q = o
    BY <1>2, <1>6, <2>1
  <2>2. CASE q # o
    <3>1. q = FirstBlock \/ \E t \in B : q = t + z[t]
      BY <1>e, <2>2
    <3>2. ASSUME NEW t \in B, q = t + z[t] PROVE \E u \in C : q = u + y[u]
      <4>1. CASE t = p
        BY <1>2, <1>6, <3>2, <4>1
      <4>2. CASE t # p
        BY <1>6, <3>2, <4>2
      <4> QED BY <4>1, <4>2
    <3> QED BY <3>1, <3>2
  <2> QED BY <2>1, <2>2
<1>11. Shape(C, y, b)
  BY <1>1, <1>6, <1>7, <1>8, <1>9, <1>10 DEF Shape
<1> QED BY <1>2, <1>4, <1>11 DEF y

\* coalesce joins two neighbours: the blocks still tile the heap.
LEMMA MergeShape ==
  ASSUME NEW B, NEW z, NEW b, Shape(B, z, b), NEW x \in B, NEW w \in B, w = x + z[x]
  PROVE  x # w /\ Shape(B \ {w}, Fused(B, z, x, w), b)
<1>1. /\ B \in SUBSET Int /\ z \in [B -> Nat] /\ b \in Int /\ b % 8 = 0 /\ FirstBlock =< b /\ b =< MaxHeap
      /\ FirstBlock \in Int /\ FirstBlock \in B \cup {b}
  BY Layout DEF Shape
<1>a. \A q \in B : q % 8 = 0 /\ z[q] % 8 = 0
  BY DEF Shape
<1>b. \A q \in B : q \in Int /\ z[q] \in Nat /\ z[q] > 16 /\ FirstBlock =< q /\ q + z[q] =< b
  BY DEF Shape
<1>c. \A q \in B : q + z[q] \in B \cup {b}
  BY DEF Shape
<1>d. \A q, t \in B : q < t => q + z[q] =< t
  BY DEF Shape
<1>e. \A q \in B \cup {b} : q = FirstBlock \/ \E t \in B : q = t + z[t]
  BY DEF Shape
<1>2. /\ x \in Int /\ w \in Int /\ z[x] \in Nat /\ z[w] \in Nat /\ x < w /\ FirstBlock \in Int /\ FirstBlock =< x
      /\ z[x] > 16 /\ z[w] > 16 /\ w < b /\ b \in Int
  BY <1>1, <1>b
<1>3. PICK k \in Nat : k = z[x] + z[w] /\ k % 8 = 0 /\ k > 16 /\ x + k = w + z[w]
  <2>1. (z[x] + z[w]) % 8 = 0
    BY <1>2, <1>a
  <2>2. x + (z[x] + z[w]) = w + z[w] /\ z[x] + z[w] \in Nat /\ z[x] + z[w] > 16
    BY <1>2
  <2> QED BY <2>1, <2>2
<1> DEFINE C == B \ {w}  y == Fused(B, z, x, w)
<1>4. y = [q \in C |-> IF q = x THEN k ELSE z[q]]
  BY <1>3 DEF Fused
<1>5. /\ x \in C /\ y[x] = k /\ \A q \in C : q # x => y[q] = z[q]
      /\ y \in [C -> Nat] /\ C \in SUBSET Int
  <2>1. x \in C /\ \A q \in C : q \in Int /\ z[q] \in Nat
    BY <1>2, <1>b
  <2> HIDE DEF y
  <2> QED BY <1>4, <2>1
<1> HIDE DEF y
<1>6. \A q \in B : q + z[q] = w => q = x
  <2> SUFFICES ASSUME NEW q \in B, q + z[q] = w PROVE q = x
    OBVIOUS
  <2>1. q \in Int /\ z[q] \in Nat /\ z[q] > 16
    BY <1>b
  <2>2. (q < x => q + z[q] =< x) /\ (x < q => x + z[x] =< q)
    BY <1>d
  <2> QED BY <1>2, <2>1, <2>2
<1>7. ASSUME NEW q \in C
      PROVE  /\ q % 8 = 0 /\ FirstBlock =< q /\ y[q] % 8 = 0 /\ y[q] > 16
             /\ q + y[q] =< b /\ q + y[q] \in C \cup {b}
  <2>1. CASE q = x
    <3>1. w + z[w] # w /\ w + z[w] \in B \cup {b} /\ w + z[w] =< b
      BY <1>2, <1>b, <1>c
    <3>2. q + y[q] = w + z[w] /\ y[q] = k
      BY <1>3, <1>5, <2>1
    <3>3. q % 8 = 0 /\ FirstBlock =< q
      BY <1>a, <1>b
    <3> QED BY <1>3, <3>1, <3>2, <3>3
  <2>2. CASE q # x
    <3>1. q + z[q] # w
      BY <1>6, <2>2
    <3> QED BY <1>5, <1>a, <1>b, <1>c, <2>2, <3>1
  <2> QED BY <2>1, <2>2
<1>8. ASSUME NEW q \in C, NEW t \in C, q < t
      PROVE  q + y[q] =< t
  <2>1. CASE q = x
    <3>1. w < t
      <4>1. x + z[x] =< t /\ t \in Int /\ t # w
        BY <1>8, <1>b, <1>d, <2>1
      <4> QED BY <1>2, <4>1
    <3>2. w + z[w] =< t
      BY <1>d, <3>1
    <3> QED BY <1>3, <1>5, <2>1, <3>2
  <2>2. CASE q # x
    BY <1>5, <1>8, <1>d, <2>2
  <2> QED BY <2>1, <2>2
<1>9. FirstBlock \in C \cup {b} /\ FirstBlock # w
  BY <1>1, <1>2
<1>10. ASSUME NEW q \in C \cup {b}
       PROVE  q = FirstBlock \/ \E t \in C : q = t + y[t]
  <2>1. q = FirstBlock \/ \E t \in B : q = t + z[t]
    BY <1>e
  <2>2. ASSUME NEW t \in B, q = t + z[t] PROVE \E u \in C : q = u + y[u]
    <3>1. q # w
      BY <1>2
    <3>2. t # x
      BY <2>2, <3>1
    <3>3. CASE t = w
      BY <1>3, <1>5, <2>2, <3>3
    <3>4. CASE t # w
      BY <1>5, <2>2, <3>2, <3>4
    <3> QED BY <3>3, <3>4
  <2> QED BY <2>1, <2>2
<1>11. Shape(C, y, b)
  BY <1>1, <1>5, <1>7, <1>8, <1>9, <1>10 DEF Shape
<1> QED BY <1>2, <1>11 DEF y

\* extend adds a block at the end: the blocks still tile the heap.
LEMMA GrowShape ==
  ASSUME NEW B, NEW z, NEW b, Shape(B, z, b), NEW s \in Nat, s % 8 = 0, s > 16, b + s =< MaxHeap
  PROVE  b \notin B /\ Shape(B \cup {b}, Grown(B, z, b, s), b + s)
<1>1. /\ B \in SUBSET Int /\ z \in [B -> Nat] /\ b \in Int /\ b % 8 = 0 /\ FirstBlock =< b /\ b =< MaxHeap
      /\ FirstBlock \in Int /\ FirstBlock \in B \cup {b}
  BY Layout DEF Shape
<1>a. \A q \in B : q % 8 = 0 /\ z[q] % 8 = 0
  BY DEF Shape
<1>b. \A q \in B : q \in Int /\ z[q] \in Nat /\ z[q] > 16 /\ FirstBlock =< q /\ q + z[q] =< b
  BY DEF Shape
<1>c. \A q \in B : q + z[q] \in B \cup {b}
  BY DEF Shape
<1>d. \A q, t \in B : q < t => q + z[q] =< t
  BY DEF Shape
<1>e. \A q \in B \cup {b} : q = FirstBlock \/ \E t \in B : q = t + z[t]
  BY DEF Shape
<1>2. b \notin B /\ \A q \in B : q < b
  BY <1>1, <1>b
<1>3. PICK c \in Int : c = b + s /\ c % 8 = 0 /\ b < c /\ FirstBlock =< c /\ c =< MaxHeap
  <2>1. (b + s) % 8 = 0 /\ FirstBlock \in Int
    BY <1>1, Layout
  <2> QED BY <1>1, <2>1
<1> DEFINE C == B \cup {b}  y == Grown(B, z, b, s)
<1>4. /\ y[b] = s /\ \A q \in B : y[q] = z[q]
      /\ y \in [C -> Nat] /\ C \in SUBSET Int
  BY <1>1, <1>2 DEF Grown
<1> HIDE DEF y
<1>5. ASSUME NEW q \in C
      PROVE  /\ q % 8 = 0 /\ FirstBlock =< q /\ y[q] % 8 = 0 /\ y[q] > 16
             /\ q + y[q] =< c /\ q + y[q] \in C \cup {c}
  <2>1. CASE q = b
    BY <1>1, <1>3, <1>4, <2>1
  <2>2. CASE q # b
    <3>1. q \in B /\ y[q] = z[q]
      BY <1>4, <2>2
    <3>2. q + z[q] =< c
      BY <1>1, <1>3, <1>b, <3>1
    <3> QED BY <1>a, <1>b, <1>c, <3>1, <3>2
  <2> QED BY <2>1, <2>2
<1>6. ASSUME NEW q \in C, NEW t \in C, q < t
      PROVE  q + y[q] =< t
  <2>1. q # b
    BY <1>1, <1>2, <1>6
  <2>2. q \in B /\ y[q] = z[q]
    BY <1>4, <2>1
  <2>3. CASE t = b
    BY <1>b, <2>2, <2>3
  <2>4. CASE t # b
    BY <1>6, <1>d, <2>2, <2>4
  <2> QED BY <2>3, <2>4
<1>7. FirstBlock \in C \cup {c}
  BY <1>1
<1>8. ASSUME NEW q \in C \cup {c}
      PROVE  q = FirstBlock \/ \E t \in C : q = t + y[t]
  <2>1. CASE q = c
    BY <1>3, <1>4, <2>1
  <2>2. CASE q # c
    <3>1. q = FirstBlock \/ \E t \in B : q = t + z[t]
      BY <1>e, <2>2
    <3> QED BY <1>4, <3>1
  <2> QED BY <2>1, <2>2
<1>9. Shape(C, y, c)
  BY <1>1, <1>3, <1>4, <1>5, <1>6, <1>7, <1>8 DEF Shape
<1> QED BY <1>2, <1>3, <1>9 DEF y

\* No two blocks end at the same place, and none ends at the first block.
LEMMA EndsOnce ==
  ASSUME NEW B, NEW z, NEW b, Shape(B, z, b), NEW p \in B, NEW q \in B
  PROVE  /\ p + z[p] = q + z[q] => p = q
         /\ p + z[p] # FirstBlock /\ p + z[p] # p
<1>1. p \in Int /\ q \in Int /\ z[p] \in Nat /\ z[q] \in Nat /\ z[p] >= 24 /\ z[q] >= 24
  BY Cells
<1>2. p = q \/ p + z[p] =< q \/ q + z[q] =< p
  BY Apart
<1>3. FirstBlock =< p /\ FirstBlock \in Int
  BY Layout DEF Shape
<1> QED BY <1>1, <1>2, <1>3

\* The heap that mm_init leaves has no block.
LEMMA EmptyShape ==
  Shape({}, [p \in {} |-> 0], FirstBlock)
BY Layout DEF Shape

-----------------------------------------------------------------------------
(* The heap between two calls, and what a call leaves alone.               *)

\* No two neighbours are free.
NoPair(B, z, U) == \A q \in B \ U : q + z[q] \notin B \ U

\* The heap between two calls: what is not in use is listed.
Tidy(m, B, z, b, U) == HeapAt(m, B, z, b, U, B \ U, B) /\ NoPair(B, z, U)

\* k bytes from p are as they were.
Holds(m, n, p, k) == \A a \in Words : p =< a /\ a < p + k => n[a] = m[a]

\* The blocks Q stay, with their size and their payload.
Stable(m, B, z, n, C, y, Q) ==
  \A q \in Q : q \in B /\ q \in C /\ y[q] = z[q] /\ Holds(m, n, q, z[q] - 16)

\* The payload of a block that a helper left alone.
LEMMA KeptHolds ==
  ASSUME NEW m, NEW n, NEW B, NEW z, Kept(m, n, B, z), NEW p \in B, p \in Int, z[p] \in Int,
         NEW k \in Int, k =< z[p] - 16
  PROVE  Holds(m, n, p, k)
<1> SUFFICES ASSUME NEW a \in Words, p =< a, a < p + k PROVE n[a] = m[a]
  BY DEF Holds
<1>1. a \in Int
  BY DEF Words
<1>2. a < p + z[p] - 16
  BY <1>1
<1> QED BY <1>2 DEF Kept

\* What two steps of a call leave alone, the call leaves alone.
LEMMA HoldsThrough ==
  ASSUME NEW m, NEW n, NEW o, NEW p, NEW k, Holds(m, n, p, k), Holds(n, o, p, k)
  PROVE  Holds(m, o, p, k)
BY DEF Holds

\* The same for all payloads.
LEMMA KeptThrough ==
  ASSUME NEW m, NEW n, NEW o, NEW B, NEW z, Kept(m, n, B, z), Kept(n, o, B, z)
  PROVE  Kept(m, o, B, z)
BY DEF Kept

\* The same for the blocks of the client.
LEMMA StableThrough ==
  ASSUME NEW m, NEW B, NEW z, NEW n, NEW C, NEW y, NEW o, NEW D, NEW x, NEW Q,
         Stable(m, B, z, n, C, y, Q), Stable(n, C, y, o, D, x, Q)
  PROVE  Stable(m, B, z, o, D, x, Q)
BY HoldsThrough DEF Stable

\* What memset, memcpy or the client writes in the payload of one block is nothing to
\* the others, nor to headers and lists.
LEMMA PayloadOnly ==
  ASSUME NEW m, NEW B, NEW z, NEW b, NEW U, NEW F, NEW W, HeapAt(m, B, z, b, U, F, W),
         NEW n, n \in [Words -> Val], NEW x \in B,
         \A a \in Words : n[a] = m[a] \/ (x =< a /\ a < x + z[x] - 16)
  PROVE  /\ HeapAt(n, B, z, b, U, F, W)
         /\ \A p \in B : p # x => Holds(m, n, p, z[p] - 16)
<1>1. /\ Shape(B, z, b) /\ m \in [Words -> Val] /\ F \subseteq W /\ W \subseteq B /\ U \subseteq B
      /\ Bordered(m, b) /\ Listing(m, B, z, F)
  BY DEF HeapAt
<1>2. \A p \in W : Headed(m, z, U, p)
  BY DEF HeapAt
<1>3. \A p \in B : /\ p \in Int /\ z[p] \in Nat /\ z[p] >= 24 /\ p - 8 >= BDR_OFF
                   /\ p + z[p] =< b
                   /\ p - 8 \in Words /\ p - 4 \in Words
                   /\ p + z[p] - 16 \in Words /\ p + z[p] - 12 \in Words
  BY <1>1, Cells
<1>4. b \in Int /\ BDR_OFF \in Nat /\ b - 8 \in Words /\ BDR_OFF - 8 \in Words
  BY <1>1, BorderCells, Layout
<1>5. ASSUME NEW p \in B
      PROVE  /\ n[p - 8] = m[p - 8] /\ n[p + z[p] - 16] = m[p + z[p] - 16]
             /\ n[p - 4] = m[p - 4] /\ n[p + z[p] - 12] = m[p + z[p] - 12]
             /\ p # x => \A a \in Words : p =< a /\ a < p + (z[p] - 16) => n[a] = m[a]
  <2>1. p = x \/ p + z[p] =< x \/ x + z[x] =< p
    BY <1>1, Apart
  <2>2. PICK i \in Int, j \in Int, s \in Nat, t \in Nat :
             i = p /\ j = x /\ s = z[p] /\ t = z[x] /\ s >= 24 /\ t >= 24
    BY <1>3
  <2>3. (i = j /\ s = t) \/ i + s =< j \/ j + t =< i
    BY <2>1, <2>2
  <2>4. /\ ~(j =< i - 8 /\ i - 8 < j + t - 16) /\ ~(j =< i + s - 16 /\ i + s - 16 < j + t - 16)
        /\ ~(j =< i - 4 /\ i - 4 < j + t - 16) /\ ~(j =< i + s - 12 /\ i + s - 12 < j + t - 16)
        /\ i # j => \A a \in Words : i =< a /\ a < i + (s - 16) => ~(j =< a /\ a < j + t - 16)
    BY <2>2, <2>3 DEF Words
  <2>5. /\ ~(x =< p - 8 /\ p - 8 < x + z[x] - 16) /\ ~(x =< p + z[p] - 16 /\ p + z[p] - 16 < x + z[x] - 16)
        /\ ~(x =< p - 4 /\ p - 4 < x + z[x] - 16) /\ ~(x =< p + z[p] - 12 /\ p + z[p] - 12 < x + z[x] - 16)
        /\ p # x => \A a \in Words : p =< a /\ a < p + (z[p] - 16) => ~(x =< a /\ a < x + z[x] - 16)
    BY <2>2, <2>4
  <2> QED BY <1>3, <2>5
<1>6. Bordered(n, b)
  <2>1. ~(x =< BDR_OFF - 8) /\ ~(b - 8 < x + z[x] - 16)
    BY <1>3, <1>4
  <2>2. n[BDR_OFF - 8] = m[BDR_OFF - 8] /\ n[b - 8] = m[b - 8]
    BY <1>4, <2>1
  <2> QED BY <1>1, <2>2 DEF Bordered
<1>7. \A p \in W : Headed(n, z, U, p)
  BY <1>1, <1>2, <1>5 DEF Headed
<1>8. Listing(n, B, z, F)
  <2>1. \A r \in Ranks : n[BUCK(r)] = m[BUCK(r)]
    <3> SUFFICES ASSUME NEW r \in Ranks PROVE n[BUCK(r)] = m[BUCK(r)]
      OBVIOUS
    <3>1. BUCK(r) \in Words /\ BUCK(r) \in Nat /\ BUCK(r) < BDR_OFF - 8
      BY BuckIs
    <3>2. ~(x =< BUCK(r))
      BY <1>3, <1>4, <3>1
    <3> QED BY <3>1, <3>2
  <2>2. \A p \in F : n[p - 4] = m[p - 4] /\ n[p + z[p] - 12] = m[p + z[p] - 12]
    BY <1>1, <1>5
  <2>3. F \subseteq B /\ \A p \in F : z[p] = z[p]
    BY <1>1
  <2> QED BY <1>1, <2>1, <2>2, <2>3, ListingSame
<1>9. HeapAt(n, B, z, b, U, F, W)
  BY <1>1, <1>6, <1>7, <1>8 DEF HeapAt
<1>10. \A p \in B : p # x => Holds(m, n, p, z[p] - 16)
  BY <1>5 DEF Holds
<1> QED BY <1>9, <1>10

\* The end of coalesce: two neighbours that are in no list become one that is.
Joins(m, n, B, z, b, U, F, x, w, y) ==
  /\ HeapAt(n, B \ {w}, y, b, U \ {x, w}, F \cup {x}, B \ {w}) /\ Kept(m, n, B \ {w}, y)
  /\ x \in B \ {w} /\ y[x] = z[x] + z[w] /\ \A q \in B \ {w} : q # x => y[q] = z[q]

\* coalesce: the header of the joined block over a heap where neither is listed.
LEMMA FuseKeeps ==
  ASSUME NEW m, NEW B, NEW z, NEW b, NEW U, NEW F, HeapAt(m, B, z, b, U, F, B),
         NEW x \in B, NEW w \in B, w = x + z[x], x \notin F, w \notin F
  PROVE  Joins(m, list_push(Mark(m, x, z[x] + z[w], UNUSED), x, get_rank(z[x] + z[w])),
               B, z, b, U, F, x, w, Fused(B, z, x, w))
<1> DEFINE k == z[x] + z[w]
           o == Mark(m, x, k, UNUSED)
           n == list_push(o, x, get_rank(k))
           C == B \ {w}
           y == Fused(B, z, x, w)
           V == U \ {x, w}
           X == B \ {x, w}
<1>1. Shape(B, z, b) /\ F \subseteq B /\ U \subseteq B
  BY DEF HeapAt
<1>2. x # w /\ Shape(C, y, b)
  BY <1>1, MergeShape
<1>3. x \in C /\ y[x] = k /\ \A q \in C : q # x => y[q] = z[q]
  BY <1>2 DEF Fused
<1> HIDE DEF y
<1>4. HeapAt(m, C, y, b, V, F, X)
  <2>1. F \subseteq X /\ X \subseteq B /\ X \subseteq C /\ V \subseteq C
    BY <1>1
  <2>2. \A p \in X : y[p] = z[p] /\ (p \in V <=> p \in U)
    BY <1>3
  <2>3. Shape(C, y, b) /\ HeapAt(m, B, z, b, U, F, B)
    BY <1>2
  <2> HIDE DEF X, C, V
  <2>4. Reshape(z, U, F, B, C, y, V, X)
    BY <2>1, <2>2 DEF Reshape
  <2> QED BY <2>3, <2>4, Reshaped
<1>5. HeapAt(o, C, y, b, V, F, C) /\ Kept(m, o, C, y)
  <2>1. V \in SUBSET C /\ x \in C /\ x \notin V /\ X \cup {x} = C
    BY <1>1, <1>3
  <2>2. o = Mark(m, x, y[x], IF x \in V THEN USED ELSE UNUSED)
    BY <1>3, <2>1
  <2> HIDE DEF X, C, V, o
  <2>3. \A p \in C : p # x => (p \in V <=> p \in V)
    OBVIOUS
  <2>4. /\ HeapAt(Mark(m, x, y[x], IF x \in V THEN USED ELSE UNUSED), C, y, b, V, F, X \cup {x})
        /\ Kept(m, Mark(m, x, y[x], IF x \in V THEN USED ELSE UNUSED), C, y)
    BY <1>4, <2>1, <2>3, MarkKeeps
  <2> QED BY <2>1, <2>2, <2>4
<1> HIDE DEF C, V, o
<1>6. HeapAt(n, C, y, b, V, F \cup {x}, C) /\ Kept(o, n, C, y)
  <2>1. n = list_push(o, x, get_rank(y[x]))
    BY <1>3
  <2> HIDE DEF n
  <2> QED BY <1>3, <1>5, <2>1, PushKeeps
<1>7. Kept(m, n, C, y)
  <2> HIDE DEF n
  <2> QED BY <1>5, <1>6, KeptThrough
<1> HIDE DEF n
<1> QED BY <1>3, <1>6, <1>7, Zenon DEF Joins, n, C, V, o, y

\* The first arm of place: a block in no list is used up to s, the rest is listed.
Divides(m, n, B, z, b, U, F, p, s, y) ==
  /\ HeapAt(n, B \cup {p + s}, y, b, U \cup {p}, F \cup {p + s}, B \cup {p + s})
  /\ Kept(m, n, B \cup {p + s}, y)
  /\ p + s \notin B /\ y[p] = s /\ y[p + s] = z[p] - s
  /\ \A q \in B : q # p => y[q] = z[q]

\* split: the headers of the two parts over a heap where the block is not listed.
LEMMA DivideKeeps ==
  ASSUME NEW m, NEW B, NEW z, NEW b, NEW U, NEW F, HeapAt(m, B, z, b, U, F, B),
         NEW p \in B, p \notin F, NEW s \in Nat, s % 8 = 0, s > 16, z[p] - s > 16
  PROVE  Divides(m, Mark(split(m, p, s), p, s, USED), B, z, b, U, F, p, s, Halved(B, z, p, s))
<1> DEFINE C == B \cup {p + s}
           y == Halved(B, z, p, s)
           V == U \ {p}
           X == B \ {p}
           o == Mark(m, p + s, z[p] - s, UNUSED)
           u == list_push(o, p + s, get_rank(z[p] - s))
           n == Mark(u, p, s, USED)
<1>1. Shape(B, z, b) /\ F \subseteq B /\ U \subseteq B /\ Headed(m, z, U, p)
  BY DEF HeapAt
<1>2. p + s \notin B /\ p + s # p /\ Shape(C, y, b)
  BY <1>1, SplitShape
<1>3. y[p] = s /\ y[p + s] = z[p] - s /\ \A q \in B : q # p => y[q] = z[q]
  BY <1>2 DEF Halved
<1>0. split(m, p, s) = u
  <2>1. SIZE(m, p) = z[p]
    BY <1>1, SizeIs
  <2> QED BY <2>1 DEF split
<1> HIDE DEF y
<1>4. HeapAt(m, C, y, b, V, F, X)
  <2>1. F \subseteq X /\ X \subseteq B /\ X \subseteq C /\ V \subseteq C
    BY <1>1
  <2>2. \A q \in X : y[q] = z[q] /\ (q \in V <=> q \in U)
    BY <1>3
  <2>3. Shape(C, y, b)
    BY <1>2
  <2> HIDE DEF X, C, V
  <2>4. Reshape(z, U, F, B, C, y, V, X)
    BY <2>1, <2>2 DEF Reshape
  <2> QED BY <2>3, <2>4, Reshaped
<1> DEFINE t == p + s
<1>5. HeapAt(o, C, y, b, V, F, X \cup {t}) /\ Kept(m, o, C, y)
  <2>1. V \in SUBSET C /\ t \in C /\ t \notin V
    BY <1>1, <1>2
  <2>2. o = Mark(m, t, y[t], IF t \in V THEN USED ELSE UNUSED)
    BY <1>3, <2>1
  <2> HIDE DEF X, C, V, o, t
  <2>3. \A q \in C : q # t => (q \in V <=> q \in V)
    OBVIOUS
  <2>4. /\ HeapAt(Mark(m, t, y[t], IF t \in V THEN USED ELSE UNUSED), C, y, b, V, F, X \cup {t})
        /\ Kept(m, Mark(m, t, y[t], IF t \in V THEN USED ELSE UNUSED), C, y)
    BY <1>4, <2>1, <2>3, MarkKeeps
  <2> QED BY <2>2, <2>4
<1>6. t \in X \cup {t} /\ t \notin F
  BY <1>1, <1>2
<1>7. u = list_push(o, t, get_rank(y[t]))
  BY <1>3
<1>8. /\ U \cup {p} \in SUBSET C /\ p \in C /\ p \in U \cup {p} /\ (X \cup {t}) \cup {p} = C
      /\ \A q \in C : q # p => (q \in U \cup {p} <=> q \in V)
  BY <1>1
<1> HIDE DEF C, V, o, X, u, t
<1>9. HeapAt(u, C, y, b, V, F \cup {t}, X \cup {t}) /\ Kept(o, u, C, y)
  BY <1>5, <1>6, <1>7, PushKeeps
<1>10. HeapAt(n, C, y, b, U \cup {p}, F \cup {t}, C) /\ Kept(u, n, C, y)
  <2> DEFINE T == U \cup {p}  Y == X \cup {t}
  <2>1. T \in SUBSET C /\ p \in C /\ p \in T /\ Y \cup {p} = C /\ \A q \in C : q # p => (q \in T <=> q \in V)
    BY <1>8
  <2>2. n = Mark(u, p, y[p], IF p \in T THEN USED ELSE UNUSED)
    BY <1>3, <2>1
  <2>3. HeapAt(u, C, y, b, V, F \cup {t}, Y)
    BY <1>9
  <2> HIDE DEF T, Y, n
  <2>4. /\ HeapAt(Mark(u, p, y[p], IF p \in T THEN USED ELSE UNUSED), C, y, b, T, F \cup {t}, Y \cup {p})
        /\ Kept(u, Mark(u, p, y[p], IF p \in T THEN USED ELSE UNUSED), C, y)
    BY <2>1, <2>3, MarkKeeps
  <2> QED BY <2>1, <2>2, <2>4 DEF T
<1> HIDE DEF n
<1>11. Kept(m, u, C, y)
  BY <1>5, <1>9, KeptThrough
<1>12. Kept(m, n, C, y)
  BY <1>10, <1>11, KeptThrough
<1> QED BY <1>0, <1>2, <1>3, <1>10, <1>12, Zenon DEF Divides, n, C, y, t

-----------------------------------------------------------------------------
(* place, coalesce and free on a heap between two calls.                   *)

\* SIZE and STAT of the blocks of a heap.
LEMMA SizesAre ==
  ASSUME NEW m, NEW B, NEW z, NEW b, NEW U, NEW F, HeapAt(m, B, z, b, U, F, B), NEW p \in B
  PROVE  SIZE(m, p) = z[p] /\ STAT(m, p) = IF p \in U THEN USED ELSE UNUSED
<1>1. Shape(B, z, b) /\ Headed(m, z, U, p)
  BY DEF HeapAt
<1> QED BY <1>1, SizeIs

\* The blocks of the client that keep their payload and their size.
LEMMA KeptStable ==
  ASSUME NEW m, NEW n, NEW B, NEW z, NEW b, Shape(B, z, b), NEW C, NEW y, Kept(m, n, C, y),
         NEW Q, \A q \in Q : q \in B /\ q \in C /\ y[q] = z[q]
  PROVE  Stable(m, B, z, n, C, y, Q)
<1> SUFFICES ASSUME NEW q \in Q PROVE Holds(m, n, q, z[q] - 16)
  BY DEF Stable
<1>1. q \in B /\ q \in C /\ y[q] = z[q]
  OBVIOUS
<1>2. q \in Int /\ y[q] \in Int /\ y[q] - 16 \in Int /\ y[q] - 16 =< y[q] - 16
  BY <1>1, Cells
<1>3. Holds(m, n, q, y[q] - 16)
  BY <1>1, <1>2, KeptHolds
<1> QED BY <1>1, <1>3

\* place on a block that is in no list and whose next one is not free: the block is
\* used and large enough, its rest, if it was cut, is listed.
LEMMA PlaceKeeps ==
  ASSUME NEW m, NEW B, NEW z, NEW b, NEW U, NEW p \in B,
         HeapAt(m, B, z, b, U, B \ (U \cup {p}), B), NoPair(B, z, U \cup {p}),
         p + z[p] \notin B \ (U \cup {p}),
         NEW s \in Nat, s % 8 = 0, s > 16, z[p] >= s
  PROVE  LET n == place(m, p, s, TRUE)
         IN  \E C, y : /\ Tidy(n, C, y, b, U \cup {p}) /\ p \in C /\ y[p] >= s
                       /\ Stable(m, B, z, n, C, y, U \ {p}) /\ Holds(m, n, p, s - 16)
<1> DEFINE n == place(m, p, s, TRUE)
           T == U \cup {p}
<1>1. Shape(B, z, b) /\ U \subseteq B
  BY DEF HeapAt
<1>2. SIZE(m, p) = z[p]
  BY SizesAre
<1>3. p \in Int /\ z[p] \in Nat /\ b \in Int /\ p + z[p] =< b
  BY <1>1, Cells
<1>4. CASE z[p] - s > META_SIZE
  <2> DEFINE C == B \cup {p + s}
             y == Halved(B, z, p, s)
  <2>1. z[p] - s > 16
    BY <1>4 DEF META_SIZE, WORD_SIZE
  <2>2. n = Mark(split(m, p, s), p, s, USED)
    BY <1>2, <1>4 DEF place
  <2>3. /\ HeapAt(n, C, y, b, T, (B \ T) \cup {p + s}, C) /\ Kept(m, n, C, y)
        /\ p + s \notin B /\ y[p] = s /\ y[p + s] = z[p] - s
        /\ \A q \in B : q # p => y[q] = z[q]
    <3> DEFINE F == B \ T
    <3>1. HeapAt(m, B, z, b, U, F, B) /\ p \notin F
      OBVIOUS
    <3> HIDE DEF F, n, C, y, T
    <3>2. Divides(m, Mark(split(m, p, s), p, s, USED), B, z, b, U, F, p, s, Halved(B, z, p, s))
      BY <2>1, <3>1, DivideKeeps
    <3>3. Divides(m, n, B, z, b, U, F, p, s, y)
      BY <2>2, <3>2 DEF y
    <3> QED BY <3>3 DEF Divides, F, T, C
  <2> HIDE DEF n, y
  <2>4. (B \ T) \cup {p + s} = C \ T
    BY <1>1, <1>3, <2>3
  <2>5. NoPair(C, y, T)
    <3> SUFFICES ASSUME NEW q \in C \ T PROVE q + y[q] \notin C \ T
      BY DEF NoPair
    <3>1. CASE q = p + s
      <4>1. q + y[q] = p + z[p]
        BY <1>3, <2>3, <3>1
      <4>2. p + z[p] # p + s
        BY <1>3, <2>1
      <4> QED BY <4>1, <4>2
    <3>2. CASE q # p + s
      <4>1. q \in B \ T /\ y[q] = z[q]
        BY <2>3, <3>2
      <4>2. q + z[q] \notin B \ T
        BY <4>1 DEF NoPair
      <4>3. q + z[q] # p + s
        <5>1. q + z[q] \in B \cup {b}
          BY <1>1, <4>1 DEF Shape
        <5>2. p + s # b
          BY <1>3, <2>1
        <5> QED BY <2>3, <5>1, <5>2
      <4> QED BY <4>1, <4>2, <4>3
    <3> QED BY <3>1, <3>2
  <2>6. Tidy(n, C, y, b, T)
    BY <2>3, <2>4, <2>5 DEF Tidy
  <2>7. Stable(m, B, z, n, C, y, U \ {p})
    <3>1. \A q \in U \ {p} : q \in B /\ q \in C /\ y[q] = z[q]
      BY <1>1, <2>3
    <3>2. Kept(m, n, C, y)
      BY <2>3
    <3> HIDE DEF C
    <3> QED BY <1>1, <3>1, <3>2, KeptStable
  <2>8. Holds(m, n, p, s - 16)
    <3>1. p \in C /\ s - 16 \in Int /\ y[p] \in Int /\ s - 16 =< y[p] - 16 /\ Kept(m, n, C, y)
      BY <2>3
    <3> HIDE DEF C
    <3> QED BY <1>3, <3>1, KeptHolds
  <2>9. p \in C /\ y[p] >= s
    BY <2>3
  <2> HIDE DEF C, T
  <2> QED BY <2>6, <2>7, <2>8, <2>9 DEF n, T
<1>5. CASE ~(z[p] - s > META_SIZE)
  <2>1. n = Mark(m, p, z[p], USED)
    BY <1>2, <1>5 DEF place
  <2>2. HeapAt(n, B, z, b, T, B \ T, B) /\ Kept(m, n, B, z)
    <3> DEFINE F == B \ T
    <3>1. HeapAt(m, B, z, b, U, F, B) /\ T \in SUBSET B /\ p \in T
          /\ \A q \in B : q # p => (q \in T <=> q \in U)
      BY <1>1
    <3>2. B \cup {p} = B /\ n = Mark(m, p, z[p], IF p \in T THEN USED ELSE UNUSED)
      BY <2>1
    <3> HIDE DEF F, n, T
    <3>3. /\ HeapAt(Mark(m, p, z[p], IF p \in T THEN USED ELSE UNUSED), B, z, b, T, F, B \cup {p})
          /\ Kept(m, Mark(m, p, z[p], IF p \in T THEN USED ELSE UNUSED), B, z)
      BY <3>1, MarkKeeps
    <3> QED BY <3>2, <3>3 DEF F
  <2> HIDE DEF n
  <2>3. Tidy(n, B, z, b, T)
    BY <2>2 DEF Tidy
  <2>4. Stable(m, B, z, n, B, z, U \ {p})
    <3>1. \A q \in U \ {p} : q \in B /\ q \in B /\ z[q] = z[q]
      BY <1>1
    <3> QED BY <1>1, <2>2, <3>1, KeptStable
  <2>5. Holds(m, n, p, s - 16)
    <3>1. s - 16 \in Int /\ s - 16 =< z[p] - 16
      BY <1>3
    <3> QED BY <1>3, <2>2, <3>1, KeptHolds
  <2> HIDE DEF T
  <2> QED BY <2>3, <2>4, <2>5 DEF n, T
<1> QED BY <1>4, <1>5

\* coalesce of two free neighbours, which leave their lists for another.
Coalesces(m, n, B, z, b, U, x, w, y) ==
  /\ HeapAt(n, B \ {w}, y, b, U, (B \ {w}) \ U, B \ {w}) /\ Stable(m, B, z, n, B \ {w}, y, U)
  /\ x \in B \ {w} /\ y[x] = z[x] + z[w] /\ \A q \in B \ {w} : q # x => y[q] = z[q]

\* coalesce of two free neighbours: one listed block takes their place.
LEMMA CoalesceKeeps ==
  ASSUME NEW m, NEW B, NEW z, NEW b, NEW U, HeapAt(m, B, z, b, U, B \ U, B),
         NEW x \in B \ U, NEW w \in B \ U, w = x + z[x]
  PROVE  Coalesces(m, coalesce(m, x, w, TRUE), B, z, b, U, x, w, Fused(B, z, x, w))
<1> DEFINE C == B \ {w}
           y == Fused(B, z, x, w)
           F == B \ U
           k == z[x] + z[w]
           m1 == list_remove(m, w, get_rank(z[w]))
           m2 == list_remove(m1, x, get_rank(z[x]))
           n == list_push(Mark(m2, x, k, UNUSED), x, get_rank(k))
<1>1. Shape(B, z, b) /\ U \subseteq B /\ x \in B /\ w \in B
  BY DEF HeapAt
<1>2. x # w
  BY <1>1, MergeShape
<1>3. coalesce(m, x, w, TRUE) = n
  <2>1. SIZE(m, x) = z[x] /\ SIZE(m, w) = z[w]
    BY <1>1, SizesAre
  <2> QED BY <2>1, Zenon DEF coalesce
<1>4. HeapAt(m, B, z, b, U, F, B) /\ x \in F /\ w \in F
  OBVIOUS
<1> HIDE DEF F, k
<1>5. HeapAt(m1, B, z, b, U, F \ {w}, B) /\ Kept(m, m1, B, z)
  BY <1>4, RemoveKeeps
<1>6. x \in F \ {w}
  BY <1>2, <1>4
<1> HIDE DEF m1
<1>7. HeapAt(m2, B, z, b, U, (F \ {w}) \ {x}, B) /\ Kept(m1, m2, B, z)
  BY <1>5, <1>6, RemoveKeeps
<1> HIDE DEF m2
<1>8. Kept(m, m2, B, z)
  BY <1>5, <1>7, KeptThrough
<1> DEFINE E == (F \ {w}) \ {x}
<1>9. x \notin E /\ w \notin E /\ U \ {x, w} = U /\ E \cup {x} = C \ U
  BY <1>2 DEF F
<1> HIDE DEF E
<1>10. /\ HeapAt(n, C, y, b, U \ {x, w}, E \cup {x}, C) /\ Kept(m2, n, C, y)
       /\ x \in C /\ y[x] = k /\ \A q \in C : q # x => y[q] = z[q]
  <2>1. HeapAt(m2, B, z, b, U, E, B)
    BY <1>7 DEF E
  <2>2. Joins(m2, list_push(Mark(m2, x, z[x] + z[w], UNUSED), x, get_rank(z[x] + z[w])),
              B, z, b, U, E, x, w, Fused(B, z, x, w))
    BY <1>1, <1>9, <2>1, FuseKeeps
  <2>3. Joins(m2, n, B, z, b, U, E, x, w, y)
    BY <2>2, Zenon DEF n, y, k
  <2> HIDE DEF n, y
  <2> QED BY <2>3 DEF Joins, k
<1> HIDE DEF n, y
<1>11. HeapAt(n, C, y, b, U, C \ U, C)
  BY <1>9, <1>10
<1>12. Stable(m, B, z, n, C, y, U)
  <2>1. \A q \in U : q \in B /\ q \in C /\ y[q] = z[q] /\ q \in B /\ z[q] = z[q]
    BY <1>1, <1>10
  <2> HIDE DEF C
  <2>2. Stable(m, B, z, m2, B, z, U)
    BY <1>1, <1>8, <2>1, KeptStable
  <2>3. Stable(m2, B, z, n, C, y, U)
    BY <1>1, <1>10, <2>1, KeptStable
  <2> QED BY <2>2, <2>3, StableThrough
<1>13. Coalesces(m, n, B, z, b, U, x, w, y)
  BY <1>10, <1>11, <1>12 DEF Coalesces, k, C
<1> QED BY <1>3, <1>13 DEF y

\* HEAP_NEXT leads to the next block or to the epilogue; STAT tells whether it is free.
LEMMA NextIs ==
  ASSUME NEW m, NEW B, NEW z, NEW b, NEW U, NEW F, HeapAt(m, B, z, b, U, F, B), NEW p \in B
  PROVE  /\ HEAP_NEXT(m, p) = p + z[p]
         /\ STAT(m, p + z[p]) = UNUSED <=> p + z[p] \in B \ U
<1>1. Shape(B, z, b) /\ Bordered(m, b)
  BY DEF HeapAt
<1>2. HEAP_NEXT(m, p) = p + z[p]
  BY SizesAre, Reads
<1>3. p + z[p] \in B \cup {b} /\ b \notin B
  <2>1. \A q \in B : q # b
    <3> SUFFICES ASSUME NEW q \in B PROVE q # b
      OBVIOUS
    <3>1. q \in Int /\ z[q] \in Nat /\ z[q] >= 24 /\ q + z[q] =< b /\ b \in Int
      BY <1>1, Cells
    <3> QED BY <3>1
  <2> QED BY <1>1, <2>1 DEF Shape
<1>4. STAT(m, b) = BORDER
  BY <1>1, BorderIs
<1>5. \A q \in B : STAT(m, q) = IF q \in U THEN USED ELSE UNUSED
  BY SizesAre
<1> QED BY <1>2, <1>3, <1>4, <1>5 DEF USED, UNUSED, BORDER

\* HEAP_PREV, by the footer of the previous block, leads to it or to the prologue.
LEMMA PrevIs ==
  ASSUME NEW m, NEW B, NEW z, NEW b, NEW U, NEW F, HeapAt(m, B, z, b, U, F, B), NEW p \in B
  PROVE  \/ STAT(m, HEAP_PREV(m, p)) # UNUSED /\ p = FirstBlock
         \/ /\ HEAP_PREV(m, p) \in B
            /\ p = HEAP_PREV(m, p) + z[HEAP_PREV(m, p)]
            /\ STAT(m, HEAP_PREV(m, p)) = UNUSED <=> HEAP_PREV(m, p) \notin U
<1>1. Shape(B, z, b) /\ Bordered(m, b)
  BY DEF HeapAt
<1>2. HEAP_PREV(m, p) = p - (m[p - 16] \div 8) * 8
  BY Reads
<1>3. CASE p = FirstBlock
  <2>1. p = BDR_OFF + 8 /\ BDR_OFF \in Nat /\ p - 16 = BDR_OFF - 8
    BY <1>3, Layout
  <2>2. (m[BDR_OFF - 8] \div 8) * 8 = 8 /\ STAT(m, BDR_OFF) = BORDER
    BY <1>1, BorderIs
  <2>3. HEAP_PREV(m, p) = BDR_OFF
    BY <1>2, <2>1, <2>2
  <2> QED BY <1>3, <2>2, <2>3 DEF BORDER, UNUSED
<1>4. CASE p # FirstBlock
  <2>1. PICK t \in B : p = t + z[t]
    BY <1>1, <1>4 DEF Shape
  <2>2. t \in Int /\ z[t] \in Nat
    BY <1>1, Cells
  <2>3. m[t + z[t] - 16] = Head(z, U, t)
    BY DEF HeapAt, Headed
  <2>4. (m[p - 16] \div 8) * 8 = z[t]
    BY <1>1, <2>1, <2>3, HeadIs
  <2>5. HEAP_PREV(m, p) = t
    BY <1>2, <2>1, <2>2, <2>4
  <2>6. STAT(m, t) = IF t \in U THEN USED ELSE UNUSED
    BY SizesAre
  <2> QED BY <2>1, <2>5, <2>6 DEF USED, UNUSED
<1> QED BY <1>3, <1>4

\* free: the block is listed, then merged with the next one and with the previous one;
\* no two neighbours are left free and the other blocks keep their bytes.
LEMMA FreeKeeps ==
  ASSUME NEW m, NEW B, NEW z, NEW b, NEW U, Tidy(m, B, z, b, U), NEW p \in U
  PROVE  \E C, y : Tidy(free(m, p), C, y, b, U \ {p}) /\ Stable(m, B, z, free(m, p), C, y, U \ {p})
<1> DEFINE V == U \ {p}
           F == B \ U
           m0 == list_push(m, p, get_rank(z[p]))
           m1 == Mark(m0, p, z[p], UNUSED)
           m2 == merge_next(m1, p)
           n == merge_prev(m2, p)
<1>1. HeapAt(m, B, z, b, U, F, B) /\ NoPair(B, z, U) /\ Shape(B, z, b) /\ U \subseteq B /\ p \in B
  BY DEF Tidy, HeapAt
<1>2. free(m, p) = n
  <2>1. SIZE(m, p) = z[p] /\ STAT(m, p) = USED
    BY <1>1, SizesAre
  <2>2. p # NULL
    BY <1>1, Cells
  <2> QED BY <2>1, <2>2 DEF free
<1>3. F \cup {p} = B \ V /\ p \notin F /\ p \notin V /\ V \in SUBSET B /\ B \cup {p} = B
      /\ \A q \in B : q # p => (q \in V <=> q \in U)
  BY <1>1
<1>4. p \in Int /\ z[p] \in Nat /\ z[p] >= 24
  BY <1>1, Cells
<1>5. HeapAt(m1, B, z, b, V, B \ V, B) /\ Stable(m, B, z, m1, B, z, V)
  <2> HIDE DEF F, V
  <2> DEFINE G == F \cup {p}
  <2>1. HeapAt(m0, B, z, b, U, G, B) /\ Kept(m, m0, B, z)
    BY <1>1, <1>3, PushKeeps
  <2>2. m1 = Mark(m0, p, z[p], IF p \in V THEN USED ELSE UNUSED)
    BY <1>3
  <2> HIDE DEF m0, m1, G
  <2>7. V \in SUBSET B /\ p \in B /\ \A q \in B : q # p => (q \in V <=> q \in U)
    BY <1>1, <1>3
  <2>3. /\ HeapAt(Mark(m0, p, z[p], IF p \in V THEN USED ELSE UNUSED), B, z, b, V, G, B \cup {p})
        /\ Kept(m0, Mark(m0, p, z[p], IF p \in V THEN USED ELSE UNUSED), B, z)
    BY <2>1, <2>7, MarkKeeps
  <2>4. Kept(m, m1, B, z)
    BY <2>1, <2>2, <2>3, KeptThrough
  <2>5. \A q \in V : q \in B /\ q \in B /\ z[q] = z[q]
    BY <1>3
  <2>6. Stable(m, B, z, m1, B, z, V)
    BY <1>1, <2>4, <2>5, KeptStable
  <2> QED BY <1>3, <2>2, <2>3, <2>6 DEF G
<1> HIDE DEF m0, m1
<1>6. \E C, y : /\ HeapAt(m2, C, y, b, V, C \ V, C) /\ Stable(m1, B, z, m2, C, y, V)
                /\ p \in C /\ p + y[p] \notin C \ V
                /\ \A q \in C \ V : q + y[q] \in C \ V => q + y[q] = p
  <2> DEFINE w == p + z[p]
  <2>1. HEAP_NEXT(m1, p) = w /\ (STAT(m1, w) = UNUSED <=> w \in B \ V)
    BY <1>1, <1>5, NextIs
  <2>2. \A q \in B \ V : q # p => q + z[q] \notin B \ U
    BY DEF NoPair, Tidy
  <2>3. CASE w \in B \ V
    <3> DEFINE C == B \ {w}
               y == Fused(B, z, p, w)
    <3>1. m2 = coalesce(m1, p, w, TRUE)
      BY <2>1, <2>3 DEF merge_next
    <3>2. p \in B \ V /\ w = p + z[p]
      BY <1>1, <1>3
    <3>3. /\ HeapAt(m2, C, y, b, V, C \ V, C) /\ Stable(m1, B, z, m2, C, y, V)
          /\ p \in C /\ y[p] = z[p] + z[w] /\ \A q \in C : q # p => y[q] = z[q]
      <4> HIDE DEF m2, V, w
      <4>1. Coalesces(m1, m2, B, z, b, V, p, w, y)
        BY <1>5, <2>3, <3>1, <3>2, CoalesceKeeps
      <4> HIDE DEF y
      <4> QED BY <4>1 DEF Coalesces
    <3> HIDE DEF m2, y
    <3>4. w # p /\ w \in Int /\ z[w] \in Nat /\ z[w] >= 24 /\ w > p
      BY <1>1, <1>4, <2>3, Cells
    <3>5. p + y[p] \notin C \ V
      <4>1. p + y[p] = w + z[w]
        BY <1>4, <3>3, <3>4
      <4>2. w + z[w] \notin B \ U
        BY <2>2, <2>3, <3>4
      <4>3. w + z[w] # p
        BY <1>4, <3>4
      <4> QED BY <4>1, <4>2, <4>3
    <3>6. ASSUME NEW q \in C \ V, q + y[q] \in C \ V PROVE q + y[q] = p
      <4>1. q # p
        BY <3>5, <3>6
      <4>2. y[q] = z[q] /\ q \in B \ V
        BY <3>3, <4>1
      <4> QED BY <2>2, <3>6, <4>1, <4>2
    <3> HIDE DEF C
    <3> QED BY <3>3, <3>5, <3>6
  <2>4. CASE w \notin B \ V
    <3>1. m2 = m1
      BY <2>1, <2>4 DEF merge_next
    <3>2. ASSUME NEW q \in B \ V, q + z[q] \in B \ V PROVE q + z[q] = p
      <4>1. q # p
        BY <2>4, <3>2
      <4> QED BY <2>2, <3>2, <4>1
    <3>3. Stable(m1, B, z, m1, B, z, V)
      BY <1>3 DEF Stable, Holds
    <3> QED BY <1>1, <1>5, <2>4, <3>1, <3>2, <3>3
  <2> QED BY <2>3, <2>4
<1> HIDE DEF m2
<1>7. PICK C, y : /\ HeapAt(m2, C, y, b, V, C \ V, C) /\ Stable(m1, B, z, m2, C, y, V)
                  /\ p \in C /\ p + y[p] \notin C \ V
                  /\ \A q \in C \ V : q + y[q] \in C \ V => q + y[q] = p
  BY <1>6
<1>8. Shape(C, y, b) /\ V \subseteq C
  BY <1>7 DEF HeapAt
<1>9. Stable(m, B, z, m2, C, y, V)
  BY <1>5, <1>7, StableThrough
<1>10. \E D, x : Tidy(n, D, x, b, V) /\ Stable(m2, C, y, n, D, x, V)
  <2> DEFINE t == HEAP_PREV(m2, p)
  <2>1. \/ STAT(m2, t) # UNUSED /\ p = FirstBlock
        \/ t \in C /\ p = t + y[t] /\ (STAT(m2, t) = UNUSED <=> t \notin V)
    BY <1>7, PrevIs
  <2> HIDE DEF t
  <2>2. CASE STAT(m2, t) # UNUSED
    <3>1. n = m2
      BY <2>2 DEF merge_prev, t
    <3>2. NoPair(C, y, V)
      <4> SUFFICES ASSUME NEW q \in C \ V, q + y[q] \in C \ V PROVE FALSE
        BY DEF NoPair
      <4>1. q + y[q] = p
        BY <1>7
      <4>2. p # FirstBlock
        BY <1>8, <4>1, EndsOnce
      <4>3. q = t
        BY <1>8, <2>1, <4>1, <4>2, EndsOnce
      <4> QED BY <2>1, <2>2, <4>2, <4>3
    <3>3. Stable(m2, C, y, m2, C, y, V)
      BY <1>8 DEF Stable, Holds
    <3> QED BY <1>7, <3>1, <3>2, <3>3 DEF Tidy
  <2>3. CASE STAT(m2, t) = UNUSED
    <3> DEFINE D == C \ {p}
               x == Fused(C, y, t, p)
    <3>1. n = coalesce(m2, t, p, TRUE)
      BY <2>3 DEF merge_prev, t
    <3>2. t \in C \ V /\ p \in C \ V /\ p = t + y[t]
      BY <1>3, <1>7, <2>1, <2>3
    <3>3. /\ HeapAt(n, D, x, b, V, D \ V, D) /\ Stable(m2, C, y, n, D, x, V)
          /\ t \in D /\ x[t] = y[t] + y[p] /\ \A q \in D : q # t => x[q] = y[q]
      <4> HIDE DEF n, V
      <4>1. Coalesces(m2, n, C, y, b, V, t, p, x)
        BY <1>7, <3>1, <3>2, CoalesceKeeps
      <4> HIDE DEF x
      <4> QED BY <4>1 DEF Coalesces
    <3> HIDE DEF n, x
    <3>4. NoPair(D, x, V)
      <4> SUFFICES ASSUME NEW q \in D \ V, q + x[q] \in D \ V PROVE FALSE
        BY DEF NoPair
      <4>1. CASE q = t
        <5>1. t \in Int /\ y[t] \in Nat /\ y[p] \in Nat
          BY <1>8, <3>2, Cells
        <5>2. t + x[t] = p + y[p]
          BY <3>2, <3>3, <5>1
        <5> QED BY <1>7, <4>1, <5>2
      <4>2. CASE q # t
        <5>1. x[q] = y[q] /\ q \in C \ V
          BY <3>3, <4>2
        <5>2. q + y[q] = p
          BY <1>7, <5>1
        <5> QED BY <1>8, <3>2, <4>2, <5>1, <5>2, EndsOnce
      <4> QED BY <4>1, <4>2
    <3>5. Tidy(n, D, x, b, V)
      BY <3>3, <3>4 DEF Tidy
    <3>6. Stable(m2, C, y, n, D, x, V)
      BY <3>3
    <3> HIDE DEF D
    <3> QED BY <3>5, <3>6
  <2> QED BY <2>2, <2>3
<1> HIDE DEF n
<1>11. PICK D, x : Tidy(n, D, x, b, V) /\ Stable(m2, C, y, n, D, x, V)
  BY <1>10
<1>12. Stable(m, B, z, n, D, x, V)
  BY <1>9, <1>11, StableThrough
<1> HIDE DEF V
<1> QED BY <1>2, <1>11, <1>12 DEF V

-----------------------------------------------------------------------------
(* The walk of a list, and the fit it finds.                               *)

\* No list is longer than the heap has room for.
LEMMA LineFits ==
  ASSUME NEW m, NEW B, NEW z, NEW b, Shape(B, z, b), NEW S \in SUBSET B,
         NEW L, NEW r, NEW N, NEW s, InLine(L, r, S, N, s)
  PROVE  N \in Nat /\ MaxBlocks \in Nat /\ N =< MaxBlocks
<1>1. N \in Nat /\ s \in [1..N -> S] /\ \A i, j \in 1..N : s[i] = s[j] => i = j
  BY DEF InLine
<1>2. MaxBlocks = MaxHeap \div 16 /\ MaxBlocks \in Nat
  BY Layout DEF MaxBlocks, META_SIZE, WORD_SIZE
<1>3. ASSUME N > MaxBlocks PROVE FALSE
  <2> DEFINE f == [i \in 1..N |-> s[i] \div 16]
  <2>1. \A i \in 1..N : s[i] \in B
    BY <1>1
  <2>2. \A i \in 1..N : f[i] \in 1..MaxBlocks
    <3> SUFFICES ASSUME NEW i \in 1..N PROVE f[i] \in 1..MaxBlocks
      OBVIOUS
    <3>1. PICK p \in Int : p = s[i] /\ p - 8 >= BDR_OFF /\ p + 24 =< MaxHeap
      <4>1. s[i] \in Int /\ z[s[i]] \in Nat /\ z[s[i]] >= 24 /\ s[i] - 8 >= BDR_OFF
            /\ s[i] + z[s[i]] =< b /\ b \in Int
        BY <2>1, Cells
      <4>2. b =< MaxHeap /\ MaxHeap \in Nat
        BY Layout DEF Shape
      <4> QED BY <4>1, <4>2
    <3>2. p >= 16 /\ MaxHeap \in Nat
      BY <3>1, Layout
    <3>3. p \div 16 \in 1..(MaxHeap \div 16)
      BY <3>1, <3>2
    <3> QED BY <1>2, <3>1, <3>3
  <2>3. f \in [1..N -> 1..MaxBlocks]
    BY <2>2
  <2>4. /\ IsFiniteSet(1..N)
        /\ Cardinality(1..N) = IF 1 > N THEN 0 ELSE N - 1 + 1
    BY <1>1, FS_Interval
  <2>5. /\ IsFiniteSet(1..MaxBlocks)
        /\ Cardinality(1..MaxBlocks) = IF 1 > MaxBlocks THEN 0 ELSE MaxBlocks - 1 + 1
    <3>1. 1 \in Int /\ MaxBlocks \in Int
      BY <1>2
    <3> QED BY <3>1, FS_Interval
  <2>6. Cardinality(1..MaxBlocks) < Cardinality(1..N)
    BY <1>1, <1>2, <1>3, <2>4, <2>5
  <2> HIDE DEF f
  <2>7. PICK i, j \in 1..N : i # j /\ f[i] = f[j]
    BY <2>3, <2>4, <2>5, <2>6, FS_PigeonHole
  <2>8. s[i] # s[j] /\ s[i] \in B /\ s[j] \in B
    BY <1>1, <2>1, <2>7
  <2>9. /\ s[i] \in Int /\ s[j] \in Int /\ z[s[i]] \in Nat /\ z[s[j]] \in Nat
        /\ z[s[i]] >= 24 /\ z[s[j]] >= 24
    BY <2>8, Cells
  <2>10. s[i] + z[s[i]] =< s[j] \/ s[j] + z[s[j]] =< s[i]
    BY <2>8, Apart
  <2>11. s[i] \div 16 = s[j] \div 16
    BY <2>7 DEF f
  <2>12. PICK p \in Int, q \in Int : p = s[i] /\ q = s[j]
    BY <2>9
  <2>13. p + 24 =< q \/ q + 24 =< p
    BY <2>9, <2>10, <2>12
  <2>14. p \div 16 = q \div 16
    BY <2>11, <2>12
  <2> QED BY <2>13, <2>14
<1> QED BY <1>1, <1>2, <1>3

\* Following LIST_NEXT from the head meets the entries in their order, then the border.
LEMMA EntriesAre ==
  ASSUME NEW m, NEW B, NEW z, NEW b, NEW U, NEW F, HeapAt(m, B, z, b, U, F, B),
         NEW r \in Ranks, NEW N, NEW s, InLine(View(m, B, z), r, Entry(z, F, r), N, s)
  PROVE  \A n \in 0..MaxBlocks : Entries(m, r)[n] = IF n < N THEN s[n + 1] ELSE BDR_OFF
<1> DEFINE M == MaxBlocks
           P(g) == g = [n \in 0..M |->
             IF n = 0 THEN LIST(m, r)
             ELSE LET p == g[n - 1] IN IF STAT(m, p) = BORDER THEN p ELSE LIST_NEXT(m, p)]
           f == [n \in 0..M |-> IF n < N THEN s[n + 1] ELSE BDR_OFF]
<1>0. Shape(B, z, b) /\ F \subseteq B /\ Bordered(m, b)
  BY DEF HeapAt
<1>1. N \in Nat /\ N =< M /\ M \in Nat
  <2> DEFINE S == Entry(z, F, r)  L == View(m, B, z)
  <2>1. S \in SUBSET B /\ InLine(L, r, S, N, s)
    BY <1>0 DEF Entry
  <2> HIDE DEF S, L
  <2> QED BY <1>0, <2>1, LineFits
<1>2. /\ s \in [1..N -> B]
      /\ m[BUCK(r)] = IF N = 0 THEN BDR_OFF ELSE s[1]
      /\ \A i \in 1..N : m[s[i] - 4] = IF i = N THEN BDR_OFF ELSE s[i + 1]
  <2>1. s \in [1..N -> Entry(z, F, r)]
    BY DEF InLine
  <2>2. \A p \in Entry(z, F, r) : p \in B
    BY <1>0 DEF Entry
  <2>3. s \in [1..N -> B]
    BY <2>1, <2>2
  <2>4. View(m, B, z).bucket[r] = m[BUCK(r)] /\ \A p \in B : View(m, B, z).next[p] = m[p - 4]
    BY DEF View
  <2> QED BY <2>3, <2>4 DEF InLine
<1>3. /\ LIST(m, r) = m[BUCK(r)] /\ STAT(m, BDR_OFF) = BORDER
      /\ \A p \in B : STAT(m, p) # BORDER /\ LIST_NEXT(m, p) = m[p - 4]
  <2>1. STAT(m, BDR_OFF) = BORDER
    BY <1>0, BorderIs
  <2>2. \A p \in B : STAT(m, p) = IF p \in U THEN USED ELSE UNUSED
    BY SizesAre
  <2> QED BY <2>1, <2>2, Reads DEF LIST, USED, UNUSED, BORDER
<1> HIDE DEF M
<1>4. \A n \in 0..M : f[n] = IF n = 0 THEN LIST(m, r)
                             ELSE LET p == f[n - 1] IN IF STAT(m, p) = BORDER THEN p ELSE LIST_NEXT(m, p)
  <2> SUFFICES ASSUME NEW n \in 0..M
               PROVE  f[n] = IF n = 0 THEN LIST(m, r)
                             ELSE IF STAT(m, f[n - 1]) = BORDER THEN f[n - 1] ELSE LIST_NEXT(m, f[n - 1])
    OBVIOUS
  <2>1. CASE n = 0
    BY <1>1, <1>2, <1>3, <2>1
  <2>2. CASE n # 0
    <3>1. n - 1 \in 0..M /\ n \in Nat /\ (n - 1) + 1 = n /\ n \in 0..M
      BY <1>1, <2>2
    <3>2. CASE n =< N
      <4>1. n - 1 < N /\ n \in 1..N
        BY <1>1, <2>2, <3>2
      <4>2. f[n - 1] = s[n] /\ s[n] \in B
        BY <1>2, <3>1, <4>1
      <4>3. m[s[n] - 4] = IF n = N THEN BDR_OFF ELSE s[n + 1]
        BY <1>2, <4>1
      <4>4. f[n] = IF n < N THEN s[n + 1] ELSE BDR_OFF
        OBVIOUS
      <4>5. n = N <=> ~(n < N)
        BY <1>1, <3>1, <3>2
      <4> QED BY <1>3, <2>2, <4>2, <4>3, <4>4, <4>5
    <3>3. CASE ~(n =< N)
      <4>1. ~(n - 1 < N) /\ ~(n < N)
        BY <1>1, <3>1, <3>3
      <4>2. f[n - 1] = BDR_OFF /\ f[n] = BDR_OFF
        BY <3>1, <4>1
      <4> QED BY <1>3, <2>2, <4>2
    <3> QED BY <3>2, <3>3
  <2> QED BY <2>1, <2>2
<1>5. P(f)
  BY <1>4
<1>6. Entries(m, r) = CHOOSE g : P(g)
  BY Zenon DEF Entries, M
<1>7. P(Entries(m, r))
  <2> HIDE DEF P, f
  <2>1. P(CHOOSE g : P(g))
    BY <1>5
  <2> QED BY <1>6, <2>1
<1> DEFINE g == Entries(m, r)
<1>8. g = [n \in 0..M |-> IF n = 0 THEN LIST(m, r)
             ELSE LET p == g[n - 1] IN IF STAT(m, p) = BORDER THEN p ELSE LIST_NEXT(m, p)]
  BY <1>7
<1> HIDE DEF g, P
<1>9. \A n \in 0..M : g[n] = IF n = 0 THEN LIST(m, r)
                             ELSE LET p == g[n - 1] IN IF STAT(m, p) = BORDER THEN p ELSE LIST_NEXT(m, p)
  BY <1>8
<1>10. \A n \in 0..M : g[n] = f[n]
  <2> DEFINE D == {k \in 0..M : g[k] # f[k]}
  <2> SUFFICES ASSUME D # {} PROVE FALSE
    OBVIOUS
  <2>1. D \in SUBSET Nat
    OBVIOUS
  <2> HIDE DEF f
  <2>2. PICK k \in D : \A j \in D : k =< j
    <3> HIDE DEF D
    <3> QED BY <2>1, Least
  <2>3. k \in 0..M /\ g[k] # f[k]
    OBVIOUS
  <2>4. k # 0 => k - 1 \in 0..M /\ k - 1 \notin D
    <3>1. k \in Nat /\ ~(k =< k - 1) /\ (k # 0 => k - 1 \in 0..M)
      BY <1>1, <2>3
    <3> QED BY <2>2, <3>1
  <2>5. k # 0 => g[k - 1] = f[k - 1]
    BY <2>4
  <2> QED BY <1>4, <1>9, <2>3, <2>5
<1> QED BY <1>10 DEF M, g

\* find_fit answers an entry that is large enough, or there is none in the list.
LEMMA FitIs ==
  ASSUME NEW m, NEW B, NEW z, NEW b, NEW U, NEW F, HeapAt(m, B, z, b, U, F, B),
         NEW r \in Ranks, NEW size \in Nat
  PROVE  \/ find_fit(m, size, r) = NULL /\ \A q \in Entry(z, F, r) : z[q] < size
         \/ /\ find_fit(m, size, r) # NULL /\ find_fit(m, size, r) \in Entry(z, F, r)
            /\ z[find_fit(m, size, r)] >= size
<1> DEFINE S == Entry(z, F, r)
           entry == Entries(m, r)
           fits == {n \in 0..MaxBlocks : STAT(m, entry[n]) # BORDER /\ Fits(m, entry[n], size)}
<1>1. Shape(B, z, b) /\ F \subseteq B /\ Bordered(m, b) /\ S \subseteq B
  BY DEF HeapAt, Entry
<1>2. PICK N, s : InLine(View(m, B, z), r, S, N, s)
  BY DEF HeapAt, Listing, Linked
<1>3. \A n \in 0..MaxBlocks : entry[n] = IF n < N THEN s[n + 1] ELSE BDR_OFF
  BY <1>2, EntriesAre
<1>4. N \in Nat /\ N =< MaxBlocks /\ MaxBlocks \in Nat
  <2> DEFINE L == View(m, B, z)
  <2>1. S \in SUBSET B /\ InLine(L, r, S, N, s)
    BY <1>1, <1>2
  <2> HIDE DEF S, L
  <2> QED BY <1>1, <2>1, LineFits
<1>5. /\ \A i \in 1..N : s[i] \in S
      /\ \A q \in S : \E i \in 1..N : s[i] = q
  BY <1>2 DEF InLine
<1>6. STAT(m, BDR_OFF) = BORDER
  BY <1>1, BorderIs
<1>7. ASSUME NEW q \in B
      PROVE  STAT(m, q) # BORDER /\ SIZE(m, q) = z[q] /\ z[q] \in Nat /\ q # NULL
  <2>1. SIZE(m, q) = z[q] /\ STAT(m, q) = IF q \in U THEN USED ELSE UNUSED
    BY SizesAre
  <2> QED BY <1>1, <2>1, Cells DEF USED, UNUSED, BORDER
<1>8. find_fit(m, size, r) = IF fits = {} THEN NULL ELSE entry[Min(fits)]
  BY DEF find_fit
<1> HIDE DEF entry
<1>9. \A n \in fits : n \in 0..MaxBlocks /\ entry[n] \in S /\ z[entry[n]] >= size
  <2> SUFFICES ASSUME NEW n \in fits PROVE entry[n] \in S /\ z[entry[n]] >= size
    OBVIOUS
  <2>1. n < N
    BY <1>3, <1>6
  <2>2. n + 1 \in 1..N /\ entry[n] = s[n + 1]
    BY <1>3, <1>4, <2>1
  <2>3. entry[n] \in S /\ entry[n] \in B
    BY <1>1, <1>5, <2>2
  <2> QED BY <1>7, <2>3 DEF Fits
<1>10. \A q \in S : z[q] >= size => fits # {}
  <2> SUFFICES ASSUME NEW q \in S, z[q] >= size PROVE fits # {}
    OBVIOUS
  <2>1. PICK i \in 1..N : s[i] = q
    BY <1>5
  <2>2. i - 1 \in 0..MaxBlocks /\ i - 1 < N /\ (i - 1) + 1 = i
    BY <1>4
  <2>3. entry[i - 1] = q
    BY <1>3, <2>1, <2>2
  <2>4. STAT(m, q) # BORDER /\ Fits(m, q, size)
    BY <1>1, <1>7 DEF Fits
  <2>5. i - 1 \in fits
    BY <2>2, <2>3, <2>4
  <2> QED BY <2>5
<1>11. fits # {} => Min(fits) \in fits
  <2> SUFFICES ASSUME fits # {} PROVE Min(fits) \in fits
    OBVIOUS
  <2>1. fits \in SUBSET Nat
    BY <1>4
  <2> HIDE DEF fits
  <2>2. \E n \in fits : \A k \in fits : n =< k
    BY <2>1, Least
  <2> QED BY <2>2 DEF Min
<1> HIDE DEF fits
<1>12. CASE fits = {}
  <2>1. find_fit(m, size, r) = NULL
    BY <1>8, <1>12
  <2>2. \A q \in S : z[q] < size
    BY <1>1, <1>7, <1>10, <1>12
  <2> QED BY <2>1, <2>2
<1>13. CASE fits # {}
  <2>1. PICK n \in fits : find_fit(m, size, r) = entry[n]
    BY <1>8, <1>11, <1>13
  <2>2. entry[n] \in S /\ z[entry[n]] >= size
    BY <1>9, <2>1
  <2>3. entry[n] # NULL
    BY <1>1, <1>7, <2>2
  <2> QED BY <2>1, <2>2, <2>3
<1> QED BY <1>12, <1>13

-----------------------------------------------------------------------------
(* malloc.                                                                 *)

\* list_init writes the links of a block that is in no list.
LEMMA InitKeeps ==
  ASSUME NEW m, NEW B, NEW z, NEW b, NEW U, NEW F, HeapAt(m, B, z, b, U, F, B),
         NEW x \in B, x \notin F
  PROVE  HeapAt(list_init(m, x), B, z, b, U, F, B) /\ Kept(m, list_init(m, x), B, z)
<1> DEFINE n == list_init(m, x)
<1>1. /\ Shape(B, z, b) /\ m \in [Words -> Val] /\ F \subseteq B /\ U \subseteq B
      /\ Bordered(m, b) /\ Listing(m, B, z, F)
  BY DEF HeapAt
<1>2. \A p \in B : Headed(m, z, U, p)
  BY DEF HeapAt
<1>3. n = [m EXCEPT ![x - 4] = BDR_OFF, ![x + z[x] - 12] = BDR_OFF]
  <2>1. NEX_PTR(x) = x - 4 /\ PRE_PTR(m, x) = x + z[x] - 12
    BY SizesAre, Reads
  <2> QED BY <2>1, Zenon DEF list_init
<1> HIDE DEF n
<1>4. x - 4 \in Words /\ x + z[x] - 12 \in Words /\ BDR_OFF \in Val
  BY <1>1, Cells, Layout DEF Val
<1>5. /\ n \in [Words -> Val]
      /\ \A a \in Words : n[a] = IF a = x - 4 \/ a = x + z[x] - 12 THEN BDR_OFF ELSE m[a]
  BY <1>1, <1>3, <1>4
<1>6. \A a \in Words : LinkCell(B, z, a) \/ n[a] = m[a]
  BY <1>5 DEF LinkCell
<1>7. SameHeads(m, n, B, z, b) /\ Kept(m, n, B, z)
  BY <1>1, <1>6, LinksOnly
<1>8. Bordered(n, b) /\ \A p \in B : Headed(n, z, U, p)
  BY <1>1, <1>2, <1>7, HeadsStay
<1>9. Listing(n, B, z, F)
  <2>1. \A r \in Ranks : n[BUCK(r)] = m[BUCK(r)]
    <3> SUFFICES ASSUME NEW r \in Ranks PROVE n[BUCK(r)] = m[BUCK(r)]
      OBVIOUS
    <3>1. BUCK(r) \in Words /\ BUCK(r) # x - 4 /\ BUCK(r) # x + z[x] - 12
      BY <1>1, BuckIs, LinksDiffer
    <3> QED BY <1>5, <3>1
  <2>2. \A p \in F : n[p - 4] = m[p - 4] /\ n[p + z[p] - 12] = m[p + z[p] - 12]
    <3> SUFFICES ASSUME NEW p \in F
                 PROVE  n[p - 4] = m[p - 4] /\ n[p + z[p] - 12] = m[p + z[p] - 12]
      OBVIOUS
    <3>1. p \in B /\ p # x
      BY <1>1
    <3>2. p - 4 \in Words /\ p + z[p] - 12 \in Words
      BY <1>1, <3>1, Cells
    <3>3. /\ p - 4 # x - 4 /\ p + z[p] - 12 # x + z[x] - 12
          /\ p - 4 # x + z[x] - 12 /\ x - 4 # p + z[p] - 12
      <4>1. PICK r : r \in Ranks
        BY Layout DEF Ranks
      <4> QED BY <1>1, <3>1, <4>1, LinksDiffer
    <3> QED BY <1>5, <3>2, <3>3
  <2>3. F \subseteq B /\ \A p \in F : z[p] = z[p]
    BY <1>1
  <2> QED BY <1>1, <2>1, <2>2, <2>3, ListingSame
<1> QED BY <1>1, <1>5, <1>7, <1>8, <1>9 DEF HeapAt, n

\* extend writes the border at the new end: the block before it has no header yet.
Grows(m, n, B, z, b, U, F, s, y) ==
  /\ HeapAt(n, B \cup {b}, y, b + s, U, F, B) /\ Kept(m, n, B, z)
  /\ b \notin B /\ y[b] = s /\ \A q \in B : y[q] = z[q]

\* extend: a heap with a new block at its end, which is in use, and a new epilogue.
LEMMA GrowKeeps ==
  ASSUME NEW m, NEW B, NEW z, NEW b, NEW U, NEW F, HeapAt(m, B, z, b, U, F, B),
         NEW s \in Nat, s % 8 = 0, s > 16, b + s =< MaxHeap,
         NEW c, c = b + s
  PROVE  Grows(m, [m EXCEPT ![c - 8] = ZIP(0, BORDER)], B, z, b, U, F, s, Grown(B, z, b, s))
<1> DEFINE n == [m EXCEPT ![c - 8] = ZIP(0, BORDER)]
           C == B \cup {b}
           y == Grown(B, z, b, s)
<1>1. /\ Shape(B, z, b) /\ m \in [Words -> Val] /\ F \subseteq B /\ U \subseteq B
      /\ Bordered(m, b) /\ Listing(m, B, z, F)
  BY DEF HeapAt
<1>2. b \notin B /\ Shape(C, y, c)
  BY <1>1, GrowShape
<1>3. y[b] = s /\ \A q \in B : y[q] = z[q]
  BY <1>2 DEF Grown
<1> HIDE DEF y
<1>4. c - 8 \in Words /\ b \in Int /\ c \in Int /\ b =< c - 8 /\ BDR_OFF \in Nat /\ BDR_OFF < b
      /\ BDR_OFF - 8 \in Words
  <2>1. c - 8 \in Words /\ c \in Int /\ BDR_OFF - 8 \in Words
    <3> HIDE DEF C
    <3> QED BY <1>2, BorderCells
  <2>2. b \in Int /\ b - 8 >= BDR_OFF
    BY <1>1, BorderCells
  <2> QED BY <2>1, <2>2, Layout
<1>5. ZIP(0, BORDER) \in Val
  BY ZipIs DEF BORDER, Val
<1>6. n \in [Words -> Val] /\ n[c - 8] = ZIP(0, BORDER) /\ \A a \in Words : a < b => n[a] = m[a]
  <2>1. \A a \in Words : a < b => a # c - 8
    BY <1>4
  <2> QED BY <1>1, <1>4, <1>5, <2>1
<1> HIDE DEF n
<1>7. \A p \in B : /\ p \in Int /\ z[p] \in Nat /\ z[p] >= 24 /\ p - 8 >= BDR_OFF /\ p + z[p] =< b
                   /\ p - 8 \in Words /\ p - 4 \in Words
                   /\ p + z[p] - 16 \in Words /\ p + z[p] - 12 \in Words
  BY <1>1, Cells
<1>8. ASSUME NEW p \in B
      PROVE  /\ n[p - 8] = m[p - 8] /\ n[p + z[p] - 16] = m[p + z[p] - 16]
             /\ n[p - 4] = m[p - 4] /\ n[p + z[p] - 12] = m[p + z[p] - 12]
             /\ \A a \in Words : p =< a /\ a < p + z[p] - 16 => n[a] = m[a]
  <2>1. p - 8 < b /\ p - 4 < b /\ p + z[p] - 16 < b /\ p + z[p] - 12 < b
    BY <1>4, <1>7
  <2>2. \A a \in Words : a < p + z[p] - 16 => a < b
    BY <1>4, <1>7 DEF Words
  <2> QED BY <1>6, <1>7, <2>1, <2>2
<1>9. Bordered(n, c)
  <2>1. BDR_OFF - 8 < b
    BY <1>4
  <2> QED BY <1>1, <1>4, <1>6, <2>1 DEF Bordered
<1>10. ASSUME NEW p \in B PROVE Headed(n, y, U, p)
  <2>1. Headed(m, z, U, p)
    BY DEF HeapAt
  <2> QED BY <1>3, <1>8, <2>1 DEF Headed, Head
<1>11. Listing(n, C, y, F)
  <2>1. \A r \in Ranks : n[BUCK(r)] = m[BUCK(r)]
    <3> SUFFICES ASSUME NEW r \in Ranks PROVE n[BUCK(r)] = m[BUCK(r)]
      OBVIOUS
    <3>1. BUCK(r) \in Words /\ BUCK(r) \in Nat /\ BUCK(r) < BDR_OFF - 8
      BY BuckIs
    <3>2. BUCK(r) < b
      BY <1>4, <3>1
    <3> QED BY <1>6, <3>1, <3>2
  <2>2. \A p \in F : n[p - 4] = m[p - 4] /\ n[p + z[p] - 12] = m[p + z[p] - 12]
    BY <1>1, <1>8
  <2>3. F \subseteq B /\ F \subseteq C /\ \A p \in F : y[p] = z[p]
    BY <1>1, <1>3
  <2> HIDE DEF C
  <2> QED BY <1>1, <2>1, <2>2, <2>3, ListingSame
<1>12. Kept(m, n, B, z)
  BY <1>8 DEF Kept
<1>13. HeapAt(n, C, y, c, U, F, B)
  <2>1. U \subseteq C /\ F \subseteq B /\ B \subseteq C
    BY <1>1
  <2> HIDE DEF C
  <2> QED BY <1>2, <1>6, <1>9, <1>10, <1>11, <2>1 DEF HeapAt
<1>14. Grows(m, n, B, z, b, U, F, s, y)
  BY <1>2, <1>3, <1>12, <1>13 DEF Grows
<1> QED BY <1>14 DEF n, y

\* No free block has n bytes.
Full(B, z, U, n) == \A p \in B \ U : z[p] < n

\* What malloc leaves of a heap with the blocks B, U of them in use: the heap as it
\* was, or one more block that is used.
Grants(m, B, z, b, U, size, r) ==
  /\ size # 0 /\ r.ptr # NULL /\ r.ptr \notin U /\ r.crashed = FALSE
  /\ \/ r.brk = b
     \/ r.brk = b + ALIGN(size + META_SIZE) /\ Full(B, z, U, ALIGN(size + META_SIZE))
  /\ \E C, y : /\ Tidy(r.mem, C, y, r.brk, U \cup {r.ptr}) /\ Stable(m, B, z, r.mem, C, y, U)
               /\ y[r.ptr] >= size + 16

\* The write through the -1 of mem_sbrk: the heap is as it was.
Crashes(m, B, z, b, U, size, r) ==
  /\ size # 0 /\ r.ptr = NULL /\ r.mem = m /\ r.brk = b /\ r.crashed = TRUE
  /\ b + ALIGN(size + META_SIZE) > MaxHeap /\ Full(B, z, U, ALIGN(size + META_SIZE))

\* malloc(0).
Nothing(m, b, size, r) ==
  size = 0 /\ r.ptr = NULL /\ r.mem = m /\ r.brk = b /\ r.crashed = FALSE

\* An answer is [mem, brk, ptr, crashed].
Answered(r) == r = [mem |-> r.mem, brk |-> r.brk, ptr |-> r.ptr, crashed |-> r.crashed]

\* What malloc answers.
Allocates(m, B, z, b, U, size, r) ==
  /\ Answered(r)
  /\ Grants(m, B, z, b, U, size, r) \/ Crashes(m, B, z, b, U, size, r) \/ Nothing(m, b, size, r)

\* malloc, when there is a fit: it leaves its list and is placed.
LEMMA TakeKeeps ==
  ASSUME NEW m, NEW B, NEW z, NEW b, NEW U, Tidy(m, B, z, b, U),
         NEW p \in B \ U, NEW s \in Nat, s % 8 = 0, s > 16, z[p] >= s
  PROVE  \E C, y : /\ Tidy(place(list_remove(m, p, get_rank(z[p])), p, s, TRUE), C, y, b, U \cup {p})
                   /\ Stable(m, B, z, place(list_remove(m, p, get_rank(z[p])), p, s, TRUE), C, y, U)
                   /\ y[p] >= s
<1> DEFINE m1 == list_remove(m, p, get_rank(z[p]))
           n == place(m1, p, s, TRUE)
           F == B \ U
<1>1. HeapAt(m, B, z, b, U, F, B) /\ NoPair(B, z, U) /\ Shape(B, z, b) /\ U \subseteq B
  BY DEF Tidy, HeapAt
<1>2. HeapAt(m1, B, z, b, U, F \ {p}, B) /\ Kept(m, m1, B, z)
  <2>1. p \in F
    OBVIOUS
  <2> HIDE DEF F
  <2> QED BY <1>1, <2>1, RemoveKeeps
<1> HIDE DEF m1
<1>3. F \ {p} = B \ (U \cup {p})
  OBVIOUS
<1>4. NoPair(B, z, U \cup {p}) /\ p + z[p] \notin B \ (U \cup {p}) /\ p \in B
  BY <1>1 DEF NoPair
<1>5. HeapAt(m1, B, z, b, U, B \ (U \cup {p}), B)
  BY <1>2, <1>3
<1>6. \E C, y : /\ Tidy(n, C, y, b, U \cup {p}) /\ p \in C /\ y[p] >= s
                /\ Stable(m1, B, z, n, C, y, U \ {p}) /\ Holds(m1, n, p, s - 16)
  BY <1>4, <1>5, PlaceKeeps
<1> HIDE DEF n
<1>7. PICK C, y : Tidy(n, C, y, b, U \cup {p}) /\ y[p] >= s /\ Stable(m1, B, z, n, C, y, U \ {p})
  BY <1>6
<1>8. U \ {p} = U
  OBVIOUS
<1>9. Stable(m, B, z, m1, B, z, U)
  <2>1. \A q \in U : q \in B /\ q \in B /\ z[q] = z[q]
    BY <1>1
  <2> QED BY <1>1, <1>2, <2>1, KeptStable
<1>10. Stable(m, B, z, n, C, y, U)
  <2>1. Stable(m1, B, z, n, C, y, U)
    BY <1>7, <1>8
  <2> QED BY <1>9, <2>1, StableThrough
<1> QED BY <1>7, <1>10 DEF n, m1

\* malloc, when there is none: the block is made of new memory.
LEMMA FreshKeeps ==
  ASSUME NEW m, NEW B, NEW z, NEW b, NEW U, Tidy(m, B, z, b, U),
         NEW s \in Nat, s % 8 = 0, s > 16, b + s =< MaxHeap, NEW c, c = b + s
  PROVE  LET n == list_init(Mark([m EXCEPT ![c - 8] = ZIP(0, BORDER)], b, s, USED), b)
         IN  \E C, y : /\ Tidy(n, C, y, c, U \cup {b}) /\ Stable(m, B, z, n, C, y, U)
                       /\ y[b] >= s /\ b \notin U /\ b # NULL
<1> DEFINE m1 == [m EXCEPT ![c - 8] = ZIP(0, BORDER)]
           m2 == Mark(m1, b, s, USED)
           n == list_init(m2, b)
           F == B \ U
           C == B \cup {b}
           y == Grown(B, z, b, s)
           V == U \cup {b}
<1>1. HeapAt(m, B, z, b, U, F, B) /\ NoPair(B, z, U) /\ Shape(B, z, b) /\ U \subseteq B
  BY DEF Tidy, HeapAt
<1>2. Grows(m, m1, B, z, b, U, F, s, y)
  <2> HIDE DEF F
  <2> QED BY <1>1, GrowKeeps
<1> HIDE DEF m1, y
<1>3. HeapAt(m1, C, y, c, U, F, B) /\ Kept(m, m1, B, z) /\ b \notin B /\ y[b] = s
      /\ \A q \in B : y[q] = z[q]
  BY <1>2 DEF Grows
<1>4. b \in C /\ V \in SUBSET C /\ b \in V /\ b \notin F /\ B \cup {b} = C
      /\ \A q \in C : q # b => (q \in V <=> q \in U)
  BY <1>1, <1>3
<1>5. HeapAt(m2, C, y, c, V, F, C) /\ Kept(m1, m2, C, y)
  <2>1. m2 = Mark(m1, b, y[b], IF b \in V THEN USED ELSE UNUSED)
    BY <1>3, <1>4
  <2> HIDE DEF C, V, F, m2
  <2>2. /\ HeapAt(Mark(m1, b, y[b], IF b \in V THEN USED ELSE UNUSED), C, y, c, V, F, B \cup {b})
        /\ Kept(m1, Mark(m1, b, y[b], IF b \in V THEN USED ELSE UNUSED), C, y)
    BY <1>3, <1>4, MarkKeeps
  <2> QED BY <1>4, <2>1, <2>2
<1> HIDE DEF m2
<1>6. HeapAt(n, C, y, c, V, F, C) /\ Kept(m2, n, C, y)
  <2> HIDE DEF C, V, F
  <2> QED BY <1>4, <1>5, InitKeeps
<1> HIDE DEF n
<1>7. F = C \ V
  BY <1>1, <1>3
<1>8. NoPair(C, y, V)
  <2> SUFFICES ASSUME NEW q \in B \ U PROVE q + y[q] \notin B \ U
    BY <1>7 DEF NoPair
  <2> QED BY <1>1, <1>3 DEF NoPair
<1>9. Tidy(n, C, y, c, V)
  BY <1>6, <1>7, <1>8 DEF Tidy
<1>10. Stable(m, B, z, n, C, y, U)
  <2>1. \A q \in U : q \in B /\ q \in B /\ z[q] = z[q] /\ q \in C /\ y[q] = z[q]
    BY <1>1, <1>3
  <2>2. Stable(m, B, z, m1, B, z, U)
    BY <1>1, <1>3, <2>1, KeptStable
  <2> HIDE DEF C
  <2>3. Kept(m1, n, C, y)
    BY <1>5, <1>6, KeptThrough
  <2>4. Stable(m1, B, z, n, C, y, U)
    BY <1>1, <2>1, <2>3, KeptStable
  <2> QED BY <2>2, <2>4, StableThrough
<1>11. b \notin U /\ b # NULL
  <2>1. b \in Int /\ FirstBlock =< b
    BY <1>1 DEF Shape
  <2> QED BY <1>1, <1>3, <2>1, Layout DEF NULL
<1>12. y[b] >= s
  BY <1>3
<1> HIDE DEF C, V
<1>13. \E D, x : /\ Tidy(n, D, x, c, V) /\ Stable(m, B, z, n, D, x, U) /\ x[b] >= s /\ b \notin U /\ b # NULL
  BY <1>9, <1>10, <1>11, <1>12
<1> QED BY <1>13 DEF n, m2, m1, V

\* malloc: a block of its own for the client, from a heap that stays whole; it asks for
\* memory, or runs through the -1 of mem_sbrk, only when no free block is large enough.
LEMMA MallocKeeps ==
  ASSUME NEW B, NEW z, NEW U, Tidy(mem, B, z, brk, U), NEW size \in Nat
  PROVE  Allocates(mem, B, z, brk, U, size, malloc(size))
<1> DEFINE asize == ALIGN(size + META_SIZE)
           ranks == {r \in get_rank(asize)..(RANK_NUM - 1) : find_fit(mem, asize, r) # NULL}
           rank == Min(ranks)
           fit == find_fit(mem, asize, rank)
           F == B \ U
<1>1. HeapAt(mem, B, z, brk, U, F, B) /\ NoPair(B, z, U) /\ Shape(B, z, brk) /\ U \subseteq B
  BY DEF Tidy, HeapAt
<1>2. asize \in Nat /\ asize % 8 = 0 /\ asize >= size + 16 /\ (size # 0 => asize > 16)
  <2>1. META_SIZE = 16 /\ size + META_SIZE \in Nat
    BY DEF META_SIZE, WORD_SIZE
  <2> QED BY <2>1, AlignIs
<1>3. ranks \subseteq Ranks /\ get_rank(asize) \in Ranks
  BY RankIs DEF Ranks
<1>4. ASSUME NEW r \in Ranks
      PROVE  \/ find_fit(mem, asize, r) = NULL /\ \A q \in Entry(z, F, r) : z[q] < asize
             \/ /\ find_fit(mem, asize, r) # NULL /\ find_fit(mem, asize, r) \in Entry(z, F, r)
                /\ z[find_fit(mem, asize, r)] >= asize
  <2> HIDE DEF F, asize
  <2> QED BY <1>1, <1>2, FitIs
<1>5. malloc(size) =
        CASE size = 0 -> Answer(mem, brk, NULL)
          [] size # 0 /\ ranks # {} ->
               Answer(place(list_remove(mem, fit, rank), fit, asize, TRUE), brk, fit)
          [] size # 0 /\ ranks = {} /\ mem_sbrk_Fails(asize) ->
               [Answer(mem, brk, NULL) EXCEPT !.crashed = TRUE]
          [] OTHER ->
               Answer(list_init(Mark(extend(mem, asize), brk, asize, USED), brk), brk + asize, brk)
  BY Zenon DEF malloc
<1>6. ranks = {} => Full(B, z, U, asize)
  <2> SUFFICES ASSUME ranks = {}, NEW p \in B \ U PROVE z[p] < asize
    BY DEF Full
  <2>1. z[p] \in Nat
    BY <1>1, Cells
  <2>2. CASE z[p] >= asize
    <3>1. get_rank(asize) =< get_rank(z[p]) /\ get_rank(z[p]) \in Ranks
      <4> HIDE DEF asize
      <4> QED BY <1>2, <2>1, <2>2, RankGrows, RankIs
    <3>2. get_rank(z[p]) \in get_rank(asize)..(RANK_NUM - 1)
      BY <1>3, <3>1, Layout DEF Ranks
    <3>3. find_fit(mem, asize, get_rank(z[p])) = NULL
      BY <3>2
    <3>4. p \in Entry(z, F, get_rank(z[p]))
      BY DEF Entry
    <3> QED BY <1>4, <3>1, <3>3, <3>4
  <2>3. CASE ~(z[p] >= asize)
    BY <1>2, <2>1, <2>3
  <2> QED BY <2>2, <2>3
<1>7. ranks # {} => /\ fit \in B \ U /\ rank = get_rank(z[fit]) /\ z[fit] >= asize
  <2> SUFFICES ASSUME ranks # {} PROVE fit \in B \ U /\ rank = get_rank(z[fit]) /\ z[fit] >= asize
    OBVIOUS
  <2>1. rank \in ranks
    <3>1. ranks \in SUBSET Nat
      BY <1>3, Layout DEF Ranks
    <3> HIDE DEF ranks
    <3>2. \E n \in ranks : \A k \in ranks : n =< k
      BY <3>1, Least
    <3> QED BY <3>2 DEF Min
  <2> HIDE DEF rank
  <2>2. rank \in Ranks /\ fit # NULL
    BY <1>3, <2>1
  <2>3. fit \in Entry(z, F, rank) /\ z[fit] >= asize
    BY <1>4, <2>2
  <2> QED BY <2>3 DEF Entry
<1> HIDE DEF asize, ranks, rank, fit, F
<1>8. CASE size = 0
  <2>1. malloc(size) = Answer(mem, brk, NULL)
    BY <1>5, <1>8
  <2> QED BY <1>8, <2>1 DEF Answer, Answered, Allocates, Nothing
<1>9. CASE size # 0 /\ ranks # {}
  <2> DEFINE n == place(list_remove(mem, fit, get_rank(z[fit])), fit, asize, TRUE)
  <2>1. malloc(size) = Answer(n, brk, fit)
    <3>1. malloc(size) = Answer(place(list_remove(mem, fit, rank), fit, asize, TRUE), brk, fit)
      BY <1>5, <1>9
    <3> QED BY <1>7, <1>9, <3>1
  <2>2. \E C, y : /\ Tidy(n, C, y, brk, U \cup {fit}) /\ Stable(mem, B, z, n, C, y, U) /\ y[fit] >= asize
    BY <1>2, <1>7, <1>9, TakeKeeps
  <2> HIDE DEF n
  <2>3. PICK C, y : Tidy(n, C, y, brk, U \cup {fit}) /\ Stable(mem, B, z, n, C, y, U) /\ y[fit] >= asize
    BY <2>2
  <2>4. fit # NULL /\ fit \notin U
    BY <1>1, <1>7, <1>9, Cells
  <2>5. y[fit] >= size + 16
    <3>1. y[fit] \in Int
      <4>1. Shape(C, y, brk) /\ fit \in C
        BY <2>3 DEF Tidy, HeapAt
      <4> QED BY <4>1, Cells
    <3> QED BY <1>2, <2>3, <3>1
  <2>6. /\ malloc(size).ptr = fit /\ malloc(size).mem = n /\ malloc(size).brk = brk
        /\ malloc(size).crashed = FALSE
    BY <2>1 DEF Answer
  <2>7. Grants(mem, B, z, brk, U, size, malloc(size))
    BY <1>9, <2>3, <2>4, <2>5, <2>6 DEF Grants
  <2>8. Answered(malloc(size))
    BY <2>1 DEF Answer, Answered
  <2> QED BY <2>7, <2>8 DEF Allocates
<1>10. CASE size # 0 /\ ranks = {} /\ mem_sbrk_Fails(asize)
  <2>1. malloc(size) = [Answer(mem, brk, NULL) EXCEPT !.crashed = TRUE]
    BY <1>5, <1>10
  <2>2. /\ malloc(size).ptr = NULL /\ malloc(size).mem = mem /\ malloc(size).brk = brk
        /\ malloc(size).crashed = TRUE
    BY <2>1 DEF Answer
  <2>3. brk + asize > MaxHeap /\ Full(B, z, U, asize)
    BY <1>6, <1>10 DEF mem_sbrk_Fails
  <2>4. Crashes(mem, B, z, brk, U, size, malloc(size))
    BY <1>10, <2>2, <2>3 DEF Crashes, asize
  <2>5. Answered(malloc(size))
    BY <2>1 DEF Answer, Answered
  <2> QED BY <2>4, <2>5 DEF Allocates
<1>11. CASE size # 0 /\ ranks = {} /\ ~mem_sbrk_Fails(asize)
  <2>0. brk \in Int /\ MaxHeap \in Int
    BY <1>1, Layout DEF Shape
  <2>7. PICK c \in Int : c = brk + asize
    BY <1>2, <2>0
  <2> DEFINE n == list_init(Mark([mem EXCEPT ![c - 8] = ZIP(0, BORDER)], brk, asize, USED), brk)
  <2>1. malloc(size) = Answer(n, c, brk)
    <3>1. malloc(size) = Answer(list_init(Mark(extend(mem, asize), brk, asize, USED), brk), brk + asize, brk)
      <4> DEFINE r1 == Answer(mem, brk, NULL)
                 r2 == Answer(place(list_remove(mem, fit, rank), fit, asize, TRUE), brk, fit)
                 r3 == [Answer(mem, brk, NULL) EXCEPT !.crashed = TRUE]
                 r4 == Answer(list_init(Mark(extend(mem, asize), brk, asize, USED), brk), brk + asize, brk)
      <4>1. malloc(size) = CASE size = 0 -> r1
                             [] size # 0 /\ ranks # {} -> r2
                             [] size # 0 /\ ranks = {} /\ mem_sbrk_Fails(asize) -> r3
                             [] OTHER -> r4
        BY <1>5, Zenon
      <4> HIDE DEF r1, r2, r3, r4
      <4>2. malloc(size) = r4
        BY <1>11, <4>1
      <4> QED BY <4>2, Zenon DEF r4
    <3>2. HDR_PTR(c) = c - 8
      BY <2>7 DEF HDR_PTR, WORD_SIZE
    <3>3. extend(mem, asize) = [mem EXCEPT ![HDR_PTR(brk + asize)] = ZIP(0, BORDER)]
      BY Zenon DEF extend
    <3>4. extend(mem, asize) = [mem EXCEPT ![c - 8] = ZIP(0, BORDER)]
      BY <2>7, <3>2, <3>3, Zenon
    <3> QED BY <2>7, <3>1, <3>4, Zenon
  <2>2. brk + asize =< MaxHeap
    BY <1>2, <1>11, <2>0 DEF mem_sbrk_Fails
  <2>3. \E C, y : /\ Tidy(n, C, y, c, U \cup {brk}) /\ Stable(mem, B, z, n, C, y, U)
                  /\ y[brk] >= asize /\ brk \notin U /\ brk # NULL
    BY <1>2, <1>11, <2>2, <2>7, FreshKeeps
  <2> HIDE DEF n
  <2>4. PICK C, y : /\ Tidy(n, C, y, c, U \cup {brk}) /\ Stable(mem, B, z, n, C, y, U)
                    /\ y[brk] >= asize /\ brk \notin U /\ brk # NULL
    BY <2>3
  <2>5. y[brk] >= size + 16
    <3>1. y[brk] \in Int
      <4>1. Shape(C, y, c) /\ brk \in C
        BY <2>4 DEF Tidy, HeapAt
      <4> QED BY <4>1, Cells
    <3> QED BY <1>2, <2>4, <3>1
  <2>6. /\ malloc(size).ptr = brk /\ malloc(size).mem = n /\ malloc(size).brk = c
        /\ malloc(size).crashed = FALSE
    BY <2>1 DEF Answer
  <2>8. Grants(mem, B, z, brk, U, size, malloc(size))
    BY <1>6, <1>11, <2>4, <2>5, <2>6, <2>7 DEF Grants, asize
  <2>9. Answered(malloc(size))
    BY <2>1 DEF Answer, Answered
  <2> QED BY <2>8, <2>9 DEF Allocates
<1> QED BY <1>8, <1>9, <1>10, <1>11

-----------------------------------------------------------------------------
(* realloc and calloc.                                                     *)

\* k bytes from p are found from q on.
Moves(m, n, p, q, k) == \A a \in Words : q =< a /\ a < q + k => n[a] = m[p + (a - q)]

\* What realloc leaves of a heap: the block p is at r.ptr with its bytes, the others stay.
Resizes(m, B, z, b, U, p, size, k, r) ==
  /\ size # 0 /\ r.ptr # NULL /\ r.ptr \notin U \ {p} /\ r.crashed = FALSE
  /\ \/ r.brk = b
     \/ r.brk = b + ALIGN(size + META_SIZE) /\ Full(B, z, U, ALIGN(size + META_SIZE))
  /\ \E C, y : /\ Tidy(r.mem, C, y, r.brk, (U \ {p}) \cup {r.ptr})
               /\ Stable(m, B, z, r.mem, C, y, U \ {p}) /\ y[r.ptr] >= size + 16
  /\ Moves(m, r.mem, p, r.ptr, k)

\* realloc(p, 0).
Frees(m, B, z, b, U, p, size, r) ==
  /\ size = 0 /\ r.ptr = NULL /\ r.brk = b /\ r.crashed = FALSE
  /\ \E C, y : Tidy(r.mem, C, y, b, U \ {p}) /\ Stable(m, B, z, r.mem, C, y, U \ {p})

\* What realloc answers for a block of the client.
Reallocates(m, B, z, b, U, p, size, k, r) ==
  Resizes(m, B, z, b, U, p, size, k, r) \/ Frees(m, B, z, b, U, p, size, r) \/ Crashes(m, B, z, b, U, size, r)

\* A payload that stays where it is moves nowhere.
LEMMA HoldsMoves ==
  ASSUME NEW m, NEW n, NEW p \in Int, NEW k, Holds(m, n, p, k)
  PROVE  Moves(m, n, p, p, k)
<1> SUFFICES ASSUME NEW a \in Words, p =< a, a < p + k PROVE n[a] = m[p + (a - p)]
  BY DEF Moves
<1>1. p + (a - p) = a
  BY DEF Words
<1> QED BY <1>1 DEF Holds

\* Fewer bytes of a payload that is kept are kept.
LEMMA HoldsLess ==
  ASSUME NEW m, NEW n, NEW p \in Int, NEW j \in Int, NEW k \in Int, Holds(m, n, p, j), k =< j
  PROVE  Holds(m, n, p, k)
<1> SUFFICES ASSUME NEW a \in Words, p =< a, a < p + k PROVE n[a] = m[a]
  BY DEF Holds
<1>1. a < p + j
  BY DEF Words
<1> QED BY <1>1 DEF Holds

\* realloc in place: the block grows over the next one, which is free, and is placed
\* again; its bytes stay.
LEMMA WidenKeeps ==
  ASSUME NEW m, NEW B, NEW z, NEW b, NEW U, Tidy(m, B, z, b, U), NEW p \in U,
         NEW w \in B \ U, w = p + z[p],
         NEW s \in Nat, s % 8 = 0, s > 16, z[p] + z[w] >= s,
         NEW k \in Nat, k =< s - 16, k =< z[p] - 16
  PROVE  LET n == place(coalesce(list_remove(m, w, get_rank(SIZE(m, w))), p, w, FALSE), p, s, FALSE)
         IN  \E C, y : /\ Tidy(n, C, y, b, U) /\ Stable(m, B, z, n, C, y, U \ {p})
                       /\ y[p] >= s /\ Holds(m, n, p, k)
<1> DEFINE m1 == list_remove(m, w, get_rank(SIZE(m, w)))
           m2 == coalesce(m1, p, w, FALSE)
           m3 == list_remove(m2, p, get_rank(SIZE(m2, p)))
           n == place(m2, p, s, FALSE)
           F == B \ U
           E == F \ {w}
           C == B \ {w}
           y == Fused(B, z, p, w)
           V == U \ {p}
<1>1. HeapAt(m, B, z, b, U, F, B) /\ NoPair(B, z, U) /\ Shape(B, z, b) /\ U \subseteq B /\ p \in B
      /\ w \in B
  BY DEF Tidy, HeapAt
<1>2. SIZE(m, w) = z[w]
  BY <1>1, SizesAre
<1>3. HeapAt(m1, B, z, b, U, E, B) /\ Kept(m, m1, B, z)
  <2>1. w \in F
    OBVIOUS
  <2> HIDE DEF F
  <2> QED BY <1>1, <1>2, <2>1, RemoveKeeps
<1> HIDE DEF m1
<1>4. m2 = list_push(Mark(m1, p, z[p] + z[w], UNUSED), p, get_rank(z[p] + z[w]))
  <2>1. SIZE(m1, p) = z[p] /\ SIZE(m1, w) = z[w]
    BY <1>1, <1>3, SizesAre
  <2> QED BY <2>1, Zenon DEF coalesce
<1>5. p \notin E /\ w \notin E /\ U \ {p, w} = V /\ E \cup {p} = C \ V
  BY <1>1
<1> HIDE DEF m2
<1>6. Joins(m1, m2, B, z, b, U, E, p, w, y)
  <2> HIDE DEF E, y
  <2> QED BY <1>1, <1>3, <1>4, <1>5, FuseKeeps DEF y
<1> HIDE DEF y, E
<1>7. HeapAt(m2, C, y, b, V, C \ V, C) /\ Kept(m1, m2, C, y) /\ p \in C /\ y[p] = z[p] + z[w]
      /\ \A q \in C : q # p => y[q] = z[q]
  BY <1>5, <1>6 DEF Joins
<1> DEFINE G == C \ V
<1>8. SIZE(m2, p) = y[p]
  BY <1>7, SizesAre
<1>9. HeapAt(m3, C, y, b, V, G \ {p}, C) /\ Kept(m2, m3, C, y)
  <2>1. p \in G
    BY <1>7
  <2>2. HeapAt(m2, C, y, b, V, G, C)
    BY <1>7
  <2> HIDE DEF G, C, V
  <2> QED BY <1>8, <2>1, <2>2, RemoveKeeps
<1> HIDE DEF m3
<1>10. n = place(m3, p, s, TRUE)
  <2>1. SIZE(m3, p) = y[p]
    BY <1>7, <1>9, SizesAre
  <2>2. SIZE(m3, p) = SIZE(m2, p)
    BY <1>8, <2>1
  <2> QED BY <2>2, Zenon DEF place, m3
<1> HIDE DEF n
<1>11. /\ p \in Int /\ w \in Int /\ z[p] \in Nat /\ z[w] \in Nat
       /\ z[p] >= 24 /\ z[w] >= 24
  BY <1>1, Cells
<1>12. /\ NoPair(C, y, V \cup {p}) /\ p + y[p] \notin C \ (V \cup {p})
       /\ G \ {p} = C \ (V \cup {p}) /\ V \cup {p} = U /\ y[p] >= s
  <2>1. p + y[p] = w + z[w]
    BY <1>7, <1>11
  <2>2. w + z[w] \notin B \ U
    BY <1>1 DEF NoPair
  <2>3. V \cup {p} = U
    OBVIOUS
  <2>4. NoPair(C, y, U)
    <3> SUFFICES ASSUME NEW q \in C \ U PROVE q + y[q] \notin C \ U
      BY DEF NoPair
    <3>1. q \in B \ U /\ y[q] = z[q]
      BY <1>7
    <3> QED BY <1>1, <3>1 DEF NoPair
  <2> QED BY <1>7, <2>1, <2>2, <2>3, <2>4
<1>13. HeapAt(m3, C, y, b, V, C \ (V \cup {p}), C)
  BY <1>9, <1>12
<1> HIDE DEF G
<1>14. \E D, x : /\ Tidy(n, D, x, b, V \cup {p}) /\ p \in D /\ x[p] >= s
                 /\ Stable(m3, C, y, n, D, x, V \ {p}) /\ Holds(m3, n, p, s - 16)
  <2> HIDE DEF C, V
  <2> QED BY <1>7, <1>10, <1>12, <1>13, PlaceKeeps
<1>15. PICK D, x : /\ Tidy(n, D, x, b, U) /\ x[p] >= s
                   /\ Stable(m3, C, y, n, D, x, V \ {p}) /\ Holds(m3, n, p, s - 16)
  BY <1>12, <1>14
<1>16. Stable(m, B, z, n, D, x, V)
  <2>1. \A q \in V : q \in B /\ q \in B /\ z[q] = z[q] /\ q \in C /\ y[q] = z[q] /\ y[q] = y[q]
    BY <1>1, <1>7
  <2>2. Stable(m, B, z, m1, B, z, V)
    BY <1>1, <1>3, <2>1, KeptStable
  <2>3. V \ {p} = V
    OBVIOUS
  <2> HIDE DEF C, V
  <2>4. Kept(m1, m3, C, y)
    BY <1>7, <1>9, KeptThrough
  <2>5. Stable(m1, B, z, m3, C, y, V)
    BY <1>1, <2>1, <2>4, KeptStable
  <2>6. Stable(m3, C, y, n, D, x, V)
    BY <1>15, <2>3
  <2>7. Stable(m, B, z, m3, C, y, V)
    BY <2>2, <2>5, StableThrough
  <2> QED BY <2>6, <2>7, StableThrough
<1>17. Holds(m, n, p, k)
  <2>1. Holds(m, m1, p, k)
    BY <1>1, <1>3, <1>11, KeptHolds
  <2>2. Kept(m1, m3, C, y)
    BY <1>7, <1>9, KeptThrough
  <2>3. y[p] \in Int /\ k =< y[p] - 16 /\ p \in C
    BY <1>7, <1>11
  <2> HIDE DEF C
  <2>4. Holds(m1, m3, p, k)
    BY <1>11, <2>2, <2>3, KeptHolds
  <2>5. Holds(m3, n, p, k)
    <3>1. s - 16 \in Int /\ k \in Int
      OBVIOUS
    <3> QED BY <1>11, <1>15, <3>1, HoldsLess
  <2>6. Holds(m, m3, p, k)
    BY <2>1, <2>4, HoldsThrough
  <2> QED BY <2>5, <2>6, HoldsThrough
<1> HIDE DEF V
<1>18. \E A, t : /\ Tidy(n, A, t, b, U) /\ Stable(m, B, z, n, A, t, V) /\ t[p] >= s /\ Holds(m, n, p, k)
  BY <1>15, <1>16, <1>17
<1> QED BY <1>18 DEF n, m2, m1, V

\* memcpy of realloc: the new block holds the bytes of the old one.
LEMMA CopyIs ==
  ASSUME NEW m, NEW B, NEW z, NEW b, NEW U, NEW F, HeapAt(m, B, z, b, U, F, B),
         NEW p \in B, NEW q \in B, p # q, NEW size \in Nat, size =< z[q] - 16
  PROVE  /\ HeapAt(memcpy(m, q, p, size), B, z, b, U, F, B)
         /\ \A t \in B : t # q => Holds(m, memcpy(m, q, p, size), t, z[t] - 16)
         /\ \A k \in Nat : k =< size /\ k =< z[p] - 16 => Moves(m, memcpy(m, q, p, size), p, q, k)
<1> DEFINE n == memcpy(m, q, p, size)
<1>1. Shape(B, z, b) /\ m \in [Words -> Val]
  BY DEF HeapAt
<1>2. SIZE(m, p) = z[p]
  BY SizesAre
<1>3. /\ p \in Int /\ q \in Int /\ z[p] \in Nat /\ z[q] \in Nat /\ z[p] >= 24 /\ z[q] >= 24
      /\ p + z[p] - 12 \in Words /\ p - 8 >= BDR_OFF
  BY <1>1, Cells
<1>4. PICK k \in Nat : k = (IF size < z[p] - 16 THEN size ELSE z[p] - 16)
  BY <1>3
<1>5. n = [a \in Words |-> IF a \in Span(q, k) THEN m[p + (a - q)] ELSE m[a]]
  <2>1. META_SIZE = 16
    BY DEF META_SIZE, WORD_SIZE
  <2> QED BY <1>2, <1>4, <2>1, Zenon DEF memcpy
<1> HIDE DEF n
<1>6. \A a \in Words : a \in Span(q, k) <=> q =< a /\ a < q + k
  BY DEF Span
<1>7. \A a \in Words : q =< a /\ a < q + k => p + (a - q) \in Words /\ p =< p + (a - q)
                                             /\ p + (a - q) < p + z[p] - 16
  <2> SUFFICES ASSUME NEW a \in Words, q =< a, a < q + k
               PROVE  p + (a - q) \in Words /\ p =< p + (a - q) /\ p + (a - q) < p + z[p] - 16
    OBVIOUS
  <2>1. a \in Int /\ a % 4 = 0 /\ q % 8 = 0 /\ p % 8 = 0
    BY <1>1 DEF Words, WORD_SIZE, Shape
  <2>2. k =< z[p] - 16
    BY <1>3, <1>4
  <2>3. PICK d \in Nat : d = a - q /\ d < k
    BY <1>3, <2>1
  <2>4. d % 4 = 0 /\ (p + d) % 4 = 0
    <3>1. (a - q) % 4 = 0
      BY <1>3, <2>1
    <3> QED BY <1>3, <2>1, <2>3, <3>1
  <2>5. p + d < p + z[p] - 16 /\ p =< p + d
    BY <1>3, <2>2, <2>3
  <2>6. p + z[p] =< MaxHeap /\ MaxHeap \in Nat /\ BDR_OFF \in Nat
    <3>1. p + z[p] =< b /\ b =< MaxHeap /\ b \in Int
      BY <1>1 DEF Shape
    <3> QED BY <1>3, <3>1, Layout
  <2>7. p + d \in Words
    BY <1>3, <2>3, <2>4, <2>5, <2>6 DEF Words, WORD_SIZE
  <2> QED BY <2>3, <2>5, <2>7
<1>8. n \in [Words -> Val] /\ \A a \in Words : n[a] = IF q =< a /\ a < q + k THEN m[p + (a - q)] ELSE m[a]
  BY <1>1, <1>5, <1>6, <1>7
<1>9. \A a \in Words : n[a] = m[a] \/ (q =< a /\ a < q + z[q] - 16)
  <2> SUFFICES ASSUME NEW a \in Words, q =< a, a < q + k PROVE a < q + z[q] - 16
    BY <1>8
  <2>1. k =< z[q] - 16 /\ a \in Int
    BY <1>3, <1>4 DEF Words
  <2> QED BY <1>3, <2>1
<1>10. /\ HeapAt(n, B, z, b, U, F, B)
       /\ \A t \in B : t # q => Holds(m, n, t, z[t] - 16)
  <2>1. n \in [Words -> Val]
    BY <1>8
  <2> QED BY <1>9, <2>1, PayloadOnly
<1>11. ASSUME NEW j \in Nat, j =< size, j =< z[p] - 16
       PROVE  Moves(m, n, p, q, j)
  <2> SUFFICES ASSUME NEW a \in Words, q =< a, a < q + j PROVE n[a] = m[p + (a - q)]
    BY DEF Moves
  <2>1. j =< k /\ a \in Int
    BY <1>3, <1>4, <1>11 DEF Words
  <2>2. a < q + k
    BY <1>3, <2>1
  <2> QED BY <1>8, <2>2
<1> QED BY <1>10, <1>11 DEF n

\* An answer with another memory.
LEMMA Replaced ==
  ASSUME NEW r, Answered(r), NEW w
  PROVE  /\ Answered([r EXCEPT !.mem = w])
         /\ [r EXCEPT !.mem = w].mem = w /\ [r EXCEPT !.mem = w].brk = r.brk
         /\ [r EXCEPT !.mem = w].ptr = r.ptr /\ [r EXCEPT !.mem = w].crashed = r.crashed
<1>1. PICK a, b, c, d : r = [mem |-> a, brk |-> b, ptr |-> c, crashed |-> d]
  BY DEF Answered
<1>2. [r EXCEPT !.mem = w] = [mem |-> w, brk |-> b, ptr |-> c, crashed |-> d]
  BY <1>1
<1> QED BY <1>1, <1>2 DEF Answered

\* realloc by a new block: it is allocated, the old one is copied to it and freed.
LEMMA MoveKeeps ==
  ASSUME NEW B, NEW z, NEW U, Tidy(mem, B, z, brk, U), NEW p \in U, NEW size \in Nat,
         NEW k \in Nat, k =< size, k =< z[p] - 16, NEW r,
         Grants(mem, B, z, brk, U, size, r), NEW o,
         o.mem = free(memcpy(r.mem, r.ptr, p, size), p), o.brk = r.brk, o.ptr = r.ptr,
         o.crashed = FALSE
  PROVE  Resizes(mem, B, z, brk, U, p, size, k, o)
<1> DEFINE m1 == memcpy(r.mem, r.ptr, p, size)
           n == free(m1, p)
           V == U \ {p}
<1>0. PICK q, c, m0 : r.ptr = q /\ r.brk = c /\ r.mem = m0
  OBVIOUS
<1>1. o.mem = n /\ o.brk = c /\ o.ptr = q /\ o.crashed = FALSE
  <2>1. o.mem = n
    BY Zenon
  <2> HIDE DEF n
  <2> QED BY <1>0, <2>1
<1>3. size # 0 /\ q # NULL /\ q \notin U /\ (c = brk \/ (c = brk + ALIGN(size + META_SIZE) /\ Full(B, z, U, ALIGN(size + META_SIZE))))
  BY <1>0 DEF Grants
<1>4. PICK C, y : Tidy(m0, C, y, c, U \cup {q}) /\ Stable(mem, B, z, m0, C, y, U) /\ y[q] >= size + 16
  BY <1>0 DEF Grants
<1> DEFINE T == U \cup {q}
<1>5. HeapAt(m0, C, y, c, T, C \ T, C) /\ NoPair(C, y, T) /\ Shape(C, y, c) /\ p \in C /\ q \in C /\ p # q
      /\ y[p] = z[p]
  <2>1. HeapAt(m0, C, y, c, T, C \ T, C) /\ NoPair(C, y, T)
    BY <1>4 DEF Tidy
  <2>2. Shape(C, y, c) /\ T \subseteq C
    BY <2>1 DEF HeapAt
  <2>3. p # q
    BY <1>3
  <2> QED BY <1>4, <2>1, <2>2, <2>3 DEF Stable
<1>6. m1 = memcpy(m0, q, p, size)
  BY <1>0
<1> HIDE DEF m1
<1>7. /\ HeapAt(m1, C, y, c, T, C \ T, C)
      /\ \A t \in C : t # q => Holds(m0, m1, t, y[t] - 16)
      /\ Moves(m0, m1, p, q, k)
  <2>1. y[q] \in Int /\ size =< y[q] - 16
    <3>1. y[q] \in Nat
      BY <1>5, Cells
    <3> QED BY <1>4, <3>1
  <2> DEFINE F == C \ T
  <2>2. HeapAt(m0, C, y, c, T, F, C)
    BY <1>5
  <2> HIDE DEF F, T
  <2>3. /\ HeapAt(memcpy(m0, q, p, size), C, y, c, T, F, C)
        /\ \A t \in C : t # q => Holds(m0, memcpy(m0, q, p, size), t, y[t] - 16)
        /\ \A j \in Nat : j =< size /\ j =< y[p] - 16 => Moves(m0, memcpy(m0, q, p, size), p, q, j)
    BY <1>5, <2>1, <2>2, CopyIs
  <2> QED BY <1>5, <1>6, <2>3 DEF F
<1>8. Tidy(m1, C, y, c, T)
  BY <1>5, <1>7 DEF Tidy
<1> HIDE DEF n
<1>9. PICK D, x : Tidy(n, D, x, c, T \ {p}) /\ Stable(m1, C, y, n, D, x, T \ {p})
  <2>1. p \in T
    OBVIOUS
  <2> HIDE DEF T
  <2> QED BY <1>8, <2>1, FreeKeeps DEF n
<1>10. T \ {p} = V \cup {q}
  BY <1>5
<1>11. Stable(mem, B, z, n, D, x, V)
  <2>1. Stable(m0, C, y, m1, C, y, V)
    BY <1>3, <1>4, <1>7 DEF Stable
  <2>2. Stable(mem, B, z, m0, C, y, V)
    BY <1>4 DEF Stable
  <2>3. Stable(m1, C, y, n, D, x, V)
    BY <1>9, <1>10 DEF Stable
  <2> HIDE DEF V
  <2>4. Stable(mem, B, z, m1, C, y, V)
    BY <2>1, <2>2, StableThrough
  <2> QED BY <2>3, <2>4, StableThrough
<1>12. x[q] >= size + 16
  BY <1>4, <1>9, <1>10 DEF Stable
<1>13. Moves(mem, n, p, q, k)
  <2> SUFFICES ASSUME NEW a \in Words, q =< a, a < q + k PROVE n[a] = mem[p + (a - q)]
    BY DEF Moves
  <2>1. m1[a] = m0[p + (a - q)]
    BY <1>7 DEF Moves
  <2>2. q \in Int /\ p \in Int /\ y[q] \in Nat /\ z[p] \in Nat /\ a \in Int
    BY <1>5, Cells DEF Words
  <2>3. n[a] = m1[a]
    <3>1. Holds(m1, n, q, y[q] - 16)
      BY <1>9, <1>10 DEF Stable
    <3>2. a < q + (y[q] - 16)
      BY <1>4, <2>2
    <3> QED BY <3>1, <3>2 DEF Holds
  <2>4. m0[p + (a - q)] = mem[p + (a - q)]
    <3>1. Holds(mem, m0, p, z[p] - 16)
      BY <1>4 DEF Stable
    <3>2. p =< p + (a - q) /\ p + (a - q) < p + (z[p] - 16)
      BY <2>2
    <3>3. p + (a - q) \in Words
      <4>1. a % 4 = 0 /\ q % 8 = 0 /\ p % 8 = 0
        BY <1>5 DEF Words, WORD_SIZE, Shape
      <4>2. PICK d \in Nat : d = a - q
        BY <2>2
      <4>3. (a - q) % 4 = 0
        BY <2>2, <4>1
      <4>4. (p + d) % 4 = 0
        BY <2>2, <4>1, <4>2, <4>3
      <4>5. p + z[p] =< c /\ c =< MaxHeap /\ c \in Int /\ FirstBlock =< p
        BY <1>5 DEF Shape
      <4>6. p + d \in 0..(MaxHeap - 1)
        BY <2>2, <3>2, <4>2, <4>5, Layout
      <4> QED BY <4>2, <4>4, <4>6 DEF Words, WORD_SIZE
    <3> QED BY <3>1, <3>2, <3>3 DEF Holds
  <2> QED BY <2>1, <2>3, <2>4
<1>15. Resizes(mem, B, z, brk, U, p, size, k, o)
  <2>1. q \notin U \ {p}
    BY <1>3
  <2>2. Tidy(n, D, x, c, (U \ {p}) \cup {q})
    BY <1>9, <1>10
  <2>3. \E E, u : /\ Tidy(n, E, u, c, (U \ {p}) \cup {q})
               /\ Stable(mem, B, z, n, E, u, U \ {p}) /\ u[q] >= size + 16
    BY <1>11, <1>12, <2>2
  <2> QED BY <1>1, <1>3, <1>13, <2>1, <2>3 DEF Resizes
<1> QED BY <1>15

\* The branches of realloc for a block of the client.
LEMMA ReallocIs ==
  ASSUME NEW p, p # NULL, SIZE(mem, p) \in Int, NEW size \in Nat
  PROVE  LET asize == ALIGN(size + META_SIZE)
             next == HEAP_NEXT(mem, p)
             alone == list_remove(mem, next, get_rank(SIZE(mem, next)))
             same == SIZE(mem, p) >= asize
             wide == STAT(mem, next) = UNUSED /\ SIZE(mem, p) + SIZE(mem, next) >= asize
         IN  /\ size = 0 => realloc(p, size) = Answer(free(mem, p), brk, NULL)
             /\ size # 0 /\ same => realloc(p, size) = Answer(mem, brk, p)
             /\ size # 0 /\ SIZE(mem, p) < asize /\ wide =>
                  realloc(p, size) = Answer(place(coalesce(alone, p, next, FALSE), p, asize, FALSE), brk, p)
             /\ size # 0 /\ ~same /\ ~wide =>
                  realloc(p, size) =
                    IF malloc(size).crashed THEN malloc(size)
                    ELSE [malloc(size) EXCEPT !.mem = free(memcpy(@, malloc(size).ptr, p, size), p)]
<1> DEFINE asize == ALIGN(size + META_SIZE)
           next == HEAP_NEXT(mem, p)
           alone == list_remove(mem, next, get_rank(SIZE(mem, next)))
           new == malloc(size)
           low == SIZE(mem, p) < asize
           same == SIZE(mem, p) >= asize
           unused == STAT(mem, next) = UNUSED
           sum == SIZE(mem, p) + SIZE(mem, next) >= asize
           r1 == Answer(free(mem, p), brk, NULL)
           r3 == Answer(mem, brk, p)
           r4 == Answer(place(coalesce(alone, p, next, FALSE), p, asize, FALSE), brk, p)
           r5 == IF new.crashed THEN new
                 ELSE [new EXCEPT !.mem = free(memcpy(@, new.ptr, p, size), p)]
<1>1. realloc(p, size) =
        CASE size = 0 -> r1
          [] size # 0 /\ p = NULL -> new
          [] size # 0 /\ p # NULL /\ same -> r3
          [] size # 0 /\ p # NULL /\ low /\ unused /\ sum -> r4
          [] OTHER -> r5
  BY Zenon DEF realloc
<1> DEFINE P1 == size = 0 => realloc(p, size) = r1
           P2 == size # 0 /\ same => realloc(p, size) = r3
           P3 == size # 0 /\ low /\ unused /\ sum => realloc(p, size) = r4
           P4 == size # 0 /\ ~same /\ ~(unused /\ sum) => realloc(p, size) = r5
<1>2. low => ~same
  <2>1. META_SIZE = 16
    BY DEF META_SIZE, WORD_SIZE
  <2>2. asize \in Int
    BY <2>1, AlignIs
  <2> HIDE DEF asize
  <2> QED BY <2>2
<1> HIDE DEF low, same, unused, sum, r1, r3, r4, r5, new, next, asize, alone
<1>3. P1 /\ P2 /\ P3 /\ P4
  BY <1>1, <1>2
<1> QED BY <1>3, Zenon DEF low, same, unused, sum, r1, r3, r4, r5, new, next, asize, alone

\* A block keeps its memory when nothing is written.
LEMMA HoldsSelf == ASSUME NEW m, NEW p, NEW k PROVE Holds(m, m, p, k)
BY DEF Holds

\* realloc of a block of the client: in each branch the heap stays whole, the other
\* blocks keep their bytes, and the new place holds the old bytes.
LEMMA ReallocKeeps ==
  ASSUME NEW B, NEW z, NEW U, Tidy(mem, B, z, brk, U), NEW p \in U, NEW size \in Nat,
         NEW k \in Nat, k =< size, k =< z[p] - 16
  PROVE  Reallocates(mem, B, z, brk, U, p, size, k, realloc(p, size))
<1> DEFINE asize == ALIGN(size + META_SIZE)
           w == p + z[p]
           alone == list_remove(mem, w, get_rank(SIZE(mem, w)))
           wide == place(coalesce(alone, p, w, FALSE), p, asize, FALSE)
           new == malloc(size)
           F == B \ U
<1>1. HeapAt(mem, B, z, brk, U, F, B) /\ NoPair(B, z, U) /\ Shape(B, z, brk) /\ U \subseteq B /\ p \in B
  BY DEF Tidy, HeapAt
<1>2. asize \in Nat /\ asize % 8 = 0 /\ asize >= size + 16 /\ (size # 0 => asize > 16)
  <2>1. META_SIZE = 16 /\ size + META_SIZE \in Nat
    BY DEF META_SIZE, WORD_SIZE
  <2> QED BY <2>1, AlignIs
<1>3. p \in Int /\ z[p] \in Nat /\ p # NULL /\ SIZE(mem, p) = z[p]
  BY <1>1, Cells, SizesAre
<1>4. HEAP_NEXT(mem, p) = w /\ (STAT(mem, w) = UNUSED <=> w \in B \ U)
  BY <1>1, NextIs
<1>5. w \in B \ U => SIZE(mem, w) = z[w] /\ z[w] \in Nat
  BY <1>1, Cells, SizesAre
<1> DEFINE over == STAT(mem, w) = UNUSED /\ SIZE(mem, p) + SIZE(mem, w) >= asize
<1>6. /\ size = 0 => realloc(p, size) = Answer(free(mem, p), brk, NULL)
      /\ size # 0 /\ SIZE(mem, p) >= asize => realloc(p, size) = Answer(mem, brk, p)
      /\ size # 0 /\ SIZE(mem, p) < asize /\ over => realloc(p, size) = Answer(wide, brk, p)
      /\ size # 0 /\ ~(SIZE(mem, p) >= asize) /\ ~over =>
           realloc(p, size) = IF new.crashed THEN new
                              ELSE [new EXCEPT !.mem = free(memcpy(@, new.ptr, p, size), p)]
  <2>1. SIZE(mem, p) \in Int
    BY <1>3
  <2> HIDE DEF over, wide, alone, new, asize, w
  <2>2. LET next == HEAP_NEXT(mem, p)
            alone1 == list_remove(mem, next, get_rank(SIZE(mem, next)))
            same == SIZE(mem, p) >= ALIGN(size + META_SIZE)
            wide1 == STAT(mem, next) = UNUSED /\ SIZE(mem, p) + SIZE(mem, next) >= ALIGN(size + META_SIZE)
         IN  /\ size = 0 => realloc(p, size) = Answer(free(mem, p), brk, NULL)
             /\ size # 0 /\ same => realloc(p, size) = Answer(mem, brk, p)
             /\ size # 0 /\ SIZE(mem, p) < ALIGN(size + META_SIZE) /\ wide1 =>
                  realloc(p, size) = Answer(place(coalesce(alone1, p, next, FALSE), p, ALIGN(size + META_SIZE), FALSE), brk, p)
             /\ size # 0 /\ ~same /\ ~wide1 =>
                  realloc(p, size) =
                    IF malloc(size).crashed THEN malloc(size)
                    ELSE [malloc(size) EXCEPT !.mem = free(memcpy(@, malloc(size).ptr, p, size), p)]
    BY <1>3, <2>1, ReallocIs
  <2> QED BY <1>4, <2>2, Zenon DEF over, wide, alone, new, asize
<1> HIDE DEF over, wide, alone, new, asize, w, F
<1>7. CASE size = 0
  <2> DEFINE n == free(mem, p)
  <2>1. PICK C, y : Tidy(n, C, y, brk, U \ {p}) /\ Stable(mem, B, z, n, C, y, U \ {p})
    BY FreeKeeps
  <2> HIDE DEF n
  <2>2. realloc(p, size) = Answer(n, brk, NULL)
    BY <1>6, <1>7 DEF n
  <2>3. /\ realloc(p, size).ptr = NULL /\ realloc(p, size).mem = n /\ realloc(p, size).brk = brk
        /\ realloc(p, size).crashed = FALSE
    BY <2>2 DEF Answer
  <2>4. Frees(mem, B, z, brk, U, p, size, realloc(p, size))
    BY <1>7, <2>1, <2>3 DEF Frees
  <2> QED BY <2>4 DEF Reallocates
<1>8. (U \ {p}) \cup {p} = U
  OBVIOUS
<1>9. CASE size # 0 /\ SIZE(mem, p) >= asize
  <2>1. realloc(p, size) = Answer(mem, brk, p)
    BY <1>6, <1>9
  <2>2. /\ realloc(p, size).ptr = p /\ realloc(p, size).mem = mem /\ realloc(p, size).brk = brk
        /\ realloc(p, size).crashed = FALSE
    BY <2>1 DEF Answer
  <2>3. Tidy(mem, B, z, brk, (U \ {p}) \cup {p}) /\ z[p] >= size + 16
    BY <1>2, <1>3, <1>8, <1>9
  <2>4. Stable(mem, B, z, mem, B, z, U \ {p})
    BY <1>1, HoldsSelf DEF Stable
  <2>5. Moves(mem, mem, p, p, k)
    BY <1>3, HoldsSelf, HoldsMoves
  <2>6. Resizes(mem, B, z, brk, U, p, size, k, realloc(p, size))
    BY <1>3, <1>9, <2>2, <2>3, <2>4, <2>5 DEF Resizes
  <2> QED BY <2>6 DEF Reallocates
<1>10. CASE size # 0 /\ SIZE(mem, p) < asize /\ over
  <2>1. realloc(p, size) = Answer(wide, brk, p)
    BY <1>6, <1>10
  <2>2. w \in B \ U /\ z[p] + z[w] >= asize
    BY <1>3, <1>4, <1>5, <1>10 DEF over
  <2>3. k =< asize - 16
    BY <1>2
  <2>4. asize > 16 /\ w = p + z[p]
    BY <1>2, <1>10 DEF w
  <2>5. \E C, y : /\ Tidy(wide, C, y, brk, U) /\ Stable(mem, B, z, wide, C, y, U \ {p})
                  /\ y[p] >= asize /\ Holds(mem, wide, p, k)
    BY <1>2, <2>2, <2>3, <2>4, WidenKeeps DEF wide, alone
  <2>6. PICK C, y : /\ Tidy(wide, C, y, brk, U) /\ Stable(mem, B, z, wide, C, y, U \ {p})
                    /\ y[p] >= asize /\ Holds(mem, wide, p, k)
    BY <2>5
  <2>7. y[p] >= size + 16
    <3>1. Shape(C, y, brk) /\ p \in C
      BY <2>6 DEF Tidy, HeapAt
    <3>2. y[p] \in Nat
      BY <3>1, Cells
    <3> QED BY <1>2, <2>6, <3>2
  <2>8. /\ realloc(p, size).ptr = p /\ realloc(p, size).mem = wide /\ realloc(p, size).brk = brk
        /\ realloc(p, size).crashed = FALSE
    BY <2>1 DEF Answer
  <2>9. Moves(mem, wide, p, p, k)
    BY <1>3, <2>6, HoldsMoves
  <2>10. Resizes(mem, B, z, brk, U, p, size, k, realloc(p, size))
    BY <1>3, <1>8, <1>10, <2>6, <2>7, <2>8, <2>9 DEF Resizes
  <2> QED BY <2>10 DEF Reallocates
<1>11. CASE size # 0 /\ ~(SIZE(mem, p) >= asize) /\ ~over
  <2>0. PICK r : r = new
    OBVIOUS
  <2>1. Allocates(mem, B, z, brk, U, size, r)
    BY <2>0, MallocKeeps DEF new
  <2>2. Answered(r) /\ (Grants(mem, B, z, brk, U, size, r) \/ Crashes(mem, B, z, brk, U, size, r))
    BY <1>11, <2>1 DEF Allocates, Nothing
  <2> DEFINE n == free(memcpy(r.mem, r.ptr, p, size), p)
             o == [r EXCEPT !.mem = n]
  <2>3. realloc(p, size) = IF r.crashed THEN r ELSE o
    <3>1. realloc(p, size) = IF new.crashed THEN new
                             ELSE [new EXCEPT !.mem = free(memcpy(@, new.ptr, p, size), p)]
      BY <1>6, <1>11
    <3> QED BY <2>0, <3>1, Zenon
  <2>4. CASE Crashes(mem, B, z, brk, U, size, r)
    <3>1. realloc(p, size) = r
      BY <2>3, <2>4 DEF Crashes
    <3> QED BY <2>4, <3>1 DEF Reallocates
  <2>5. CASE Grants(mem, B, z, brk, U, size, r)
    <3>1. realloc(p, size) = o
      BY <2>3, <2>5 DEF Grants
    <3>2. o.mem = n /\ o.brk = r.brk /\ o.ptr = r.ptr /\ o.crashed = r.crashed
      <4> HIDE DEF n
      <4> QED BY <2>2, Replaced
    <3>3. r.crashed = FALSE
      BY <2>5 DEF Grants
    <3> HIDE DEF o
    <3>4. Resizes(mem, B, z, brk, U, p, size, k, o)
      <4>1. o.mem = free(memcpy(r.mem, r.ptr, p, size), p)
        BY <3>2, Zenon
      <4> HIDE DEF n
      <4> QED BY <2>5, <3>2, <3>3, <4>1, MoveKeeps
    <3> QED BY <3>1, <3>4 DEF Reallocates
  <2> QED BY <2>2, <2>4, <2>5
<1> QED BY <1>2, <1>3, <1>7, <1>9, <1>10, <1>11

\* The client writes the bytes it asked for and no others.
LEMMA FillKeeps ==
  ASSUME NEW m, NEW B, NEW z, NEW b, NEW U, Tidy(m, B, z, b, U), NEW p \in U,
         NEW size \in Nat, z[p] >= size + 16, NEW v \in Val
  PROVE  /\ Tidy(memset(m, p, size, v), B, z, b, U)
         /\ Stable(m, B, z, memset(m, p, size, v), B, z, U \ {p})
         /\ \A a \in Span(p, size) : memset(m, p, size, v)[a] = v
<1> DEFINE n == memset(m, p, size, v)
           F == B \ U
<1>1. HeapAt(m, B, z, b, U, F, B) /\ NoPair(B, z, U) /\ Shape(B, z, b) /\ U \subseteq B /\ p \in B
      /\ m \in [Words -> Val]
  BY DEF Tidy, HeapAt
<1>2. p \in Int /\ z[p] \in Nat
  BY <1>1, Cells
<1>3. n = [a \in Words |-> IF a \in Span(p, size) THEN v ELSE m[a]]
  BY Zenon DEF memset
<1> HIDE DEF n
<1>4. n \in [Words -> Val] /\ \A a \in Words : n[a] = IF a \in Span(p, size) THEN v ELSE m[a]
  BY <1>1, <1>3
<1>5. \A a \in Words : n[a] = m[a] \/ (p =< a /\ a < p + z[p] - 16)
  <2> SUFFICES ASSUME NEW a \in Words, a \in Span(p, size) PROVE p =< a /\ a < p + z[p] - 16
    BY <1>4
  <2>1. p =< a /\ a < p + size /\ a \in Int
    BY DEF Span, Words
  <2> QED BY <1>2, <2>1
<1>6. HeapAt(n, B, z, b, U, F, B) /\ \A t \in B : t # p => Holds(m, n, t, z[t] - 16)
  <2> HIDE DEF F
  <2> QED BY <1>1, <1>4, <1>5, PayloadOnly
<1>7. Tidy(n, B, z, b, U)
  BY <1>1, <1>6 DEF Tidy
<1>8. Stable(m, B, z, n, B, z, U \ {p})
  BY <1>1, <1>6 DEF Stable
<1>9. \A a \in Span(p, size) : n[a] = v
  BY <1>4 DEF Span
<1> QED BY <1>7, <1>8, <1>9 DEF n

\* memset of no bytes, what calloc does when malloc answered nothing.
LEMMA FillNone ==
  ASSUME NEW m \in [Words -> Val], NEW p \in Int, NEW v
  PROVE  memset(m, p, 0, v) = m
<1>1. \A a \in Words : a \notin Span(p, 0)
  BY DEF Span, Words
<1>2. memset(m, p, 0, v) = [a \in Words |-> IF a \in Span(p, 0) THEN v ELSE m[a]]
  BY Zenon DEF memset
<1> QED BY <1>1, <1>2

\* mm_init leaves prologue and epilogue, and every list empty, on any memory.
LEMMA ResetKeeps ==
  ASSUME NEW m \in [Words -> Val]
  PROVE  Tidy(mm_init(m), {}, [p \in {} |-> 0], FirstBlock, {})
<1> DEFINE n == mm_init(m)
           z == [p \in {} |-> 0]
<1>1. n = [a \in Words |->
             CASE a < RANK_NUM * WORD_SIZE -> BDR_OFF
               [] a = HDR_PTR(BDR_OFF)     -> ZIP(2 * WORD_SIZE, BORDER)
               [] a = BDR_OFF              -> ZIP(0, BORDER)
               [] OTHER                    -> m[a]]
  BY Zenon DEF mm_init
<1>2. HDR_PTR(BDR_OFF) = BDR_OFF - 8 /\ 2 * WORD_SIZE = 8 /\ RANK_NUM * WORD_SIZE = RANK_NUM * 4
  BY Layout DEF HDR_PTR, WORD_SIZE
<1>3. n = [a \in Words |->
             CASE a < RANK_NUM * 4 -> BDR_OFF
               [] a = BDR_OFF - 8 -> ZIP(8, BORDER)
               [] a = BDR_OFF -> ZIP(0, BORDER)
               [] OTHER -> m[a]]
  BY <1>1, <1>2
<1> HIDE DEF n
<1>4. ZIP(8, BORDER) \in Nat /\ ZIP(0, BORDER) \in Nat
  BY ZipIs DEF BORDER
<1>5. n \in [Words -> Val]
  <2> SUFFICES ASSUME NEW a \in Words PROVE n[a] \in Val
    BY <1>3
  <2> QED BY <1>3, <1>4, Layout DEF Val
<1>6. Shape({}, z, FirstBlock)
  BY EmptyShape
<1>7. n[BDR_OFF - 8] = ZIP(8, BORDER) /\ n[FirstBlock - 8] = ZIP(0, BORDER)
  <2>1. FirstBlock - 8 = BDR_OFF /\ BDR_OFF - 8 >= RANK_NUM * 4 /\ BDR_OFF >= RANK_NUM * 4
        /\ BDR_OFF - 8 # BDR_OFF /\ RANK_NUM \in Nat
    BY Layout
  <2>2. BDR_OFF - 8 \in Words /\ BDR_OFF \in Words
    BY <1>6, <2>1, BorderCells
  <2>3. ~(BDR_OFF - 8 < RANK_NUM * 4) /\ ~(BDR_OFF < RANK_NUM * 4)
    BY <2>1, Layout
  <2> QED BY <1>3, <2>1, <2>2, <2>3
<1>8. ASSUME NEW r \in Ranks
      PROVE  Linked(View(n, {}, z), {}, r, Entry(z, {}, r))
  <2>1. n[BUCK(r)] = BDR_OFF
    <3>1. BUCK(r) \in Words /\ BUCK(r) = r * 4 /\ r \in Nat /\ r < RANK_NUM
      BY BuckIs, Layout DEF BUCK, WORD_SIZE, Ranks
    <3>2. r * 4 < RANK_NUM * 4
      <4>1. RANK_NUM \in Nat
        BY Layout
      <4> QED BY <3>1, <4>1
    <3>3. BUCK(r) < RANK_NUM * 4
      BY <3>1, <3>2
    <3>4. BUCK(r) # BDR_OFF - 8 /\ BUCK(r) # BDR_OFF
      BY BuckIs, Layout
    <3>5. BUCK(r) \in Words
      BY <3>1
    <3> HIDE <3>1, <3>2
    <3> QED BY <1>3, <3>3, <3>4, <3>5
  <2>2. View(n, {}, z).bucket[r] = BDR_OFF
    BY <2>1 DEF View
  <2>3. Entry(z, {}, r) = {}
    BY DEF Entry
  <2>4. Joined(View(n, {}, z), {}, r, {})
    BY <2>2 DEF Joined
  <2>5. InLine(View(n, {}, z), r, {}, 0, <<>>)
    BY <2>2 DEF InLine
  <2> QED BY <2>3, <2>4, <2>5 DEF Linked
<1>9. HeapAt(n, {}, z, FirstBlock, {}, {}, {})
  BY <1>5, <1>6, <1>7, <1>8 DEF HeapAt, Bordered, Listing
<1>10. {} \ {} = {}
  OBVIOUS
<1>11. Tidy(n, {}, z, FirstBlock, {})
  BY <1>9, <1>10 DEF Tidy, NoPair
<1> QED BY <1>11 DEF n

\* The client knows the size it asked for and how many of its bytes it may expect.
Record(e) == e.size \in Nat /\ e.kept \in Nat /\ e.kept =< e.size /\ e.tag \in Val

\* The block of p is large enough for the entry e of the client, and holds its bytes.
Serves(m, z, p, e) ==
  Record(e) /\ z[p] >= e.size + 16 /\ \A a \in Span(p, e.kept) : m[a] = e.tag

\* So are all the blocks of the client.
Served(m, z, o) == \A p \in DOMAIN o : Serves(m, z, p, o[p])

\* There is a heap in memory, and the client's blocks are the ones in use.
Client(m, b, o) == \E B, z : Tidy(m, B, z, b, DOMAIN o) /\ Served(m, z, o)

\* The words of the first bytes of a payload.
LEMMA SpanIn ==
  ASSUME NEW p \in Int, NEW k \in Nat, NEW j \in Int, k =< j, NEW a \in Span(p, k)
  PROVE  a \in Words /\ p =< a /\ a < p + k /\ a < p + j
BY DEF Span, Words

\* The blocks a call leaves alone still serve the client.
LEMMA StillServed ==
  ASSUME NEW m, NEW B, NEW z, NEW b, NEW o, Tidy(m, B, z, b, DOMAIN o), Served(m, z, o),
         NEW n, NEW C, NEW y, NEW Q, Q \subseteq DOMAIN o, Stable(m, B, z, n, C, y, Q), NEW p \in Q
  PROVE  Serves(n, y, p, o[p])
<1>1. Shape(B, z, b) /\ p \in B
  BY DEF Tidy, HeapAt
<1>2. p \in Int /\ z[p] \in Nat
  BY <1>1, Cells
<1>3. Serves(m, z, p, o[p])
  BY DEF Served
<1> DEFINE e == o[p]
<1>4. Record(e) /\ z[p] >= e.size + 16 /\ \A a \in Span(p, e.kept) : m[a] = e.tag
  BY <1>3 DEF Serves
<1> HIDE DEF e
<1>5. y[p] = z[p] /\ Holds(m, n, p, z[p] - 16)
  BY DEF Stable
<1>6. e.kept \in Nat /\ e.kept =< z[p] - 16
  BY <1>2, <1>4 DEF Record
<1>7. ASSUME NEW a \in Span(p, e.kept) PROVE n[a] = e.tag
  <2>0. PICK j \in Int : j = z[p] - 16
    BY <1>2
  <2>1. a \in Words /\ p =< a /\ a < p + (z[p] - 16)
    BY <1>2, <1>6, <2>0, SpanIn
  <2>2. n[a] = m[a]
    BY <1>5, <2>1 DEF Holds
  <2> QED BY <1>4, <2>2
<1>8. Serves(n, y, p, e)
  BY <1>4, <1>5, <1>7 DEF Serves
<1> QED BY <1>8 DEF e

\* The client after a call that left it one block more, or one in place of another.
LEMMA GainsClient ==
  ASSUME NEW m, NEW B, NEW z, NEW b, NEW o, Tidy(m, B, z, b, DOMAIN o), Served(m, z, o),
         NEW n, NEW C, NEW y, NEW c, NEW Q, Q \subseteq DOMAIN o, NEW q, q \notin Q,
         Tidy(n, C, y, c, Q \cup {q}), Stable(m, B, z, n, C, y, Q),
         NEW x, DOMAIN x = Q \cup {q}, \A p \in Q : x[p] = o[p], Serves(n, y, q, x[q])
  PROVE  Client(n, c, x)
<1>1. ASSUME NEW p \in DOMAIN x PROVE Serves(n, y, p, x[p])
  <2>1. CASE p \in Q
    <3>1. Serves(n, y, p, o[p])
      BY <2>1, StillServed
    <3> QED BY <2>1, <3>1
  <2>2. CASE p = q
    BY <2>2
  <2> QED BY <2>1, <2>2
<1> QED BY <1>1 DEF Client, Served

\* The client after a call that left it no new block.
LEMMA KeepsClient ==
  ASSUME NEW m, NEW B, NEW z, NEW b, NEW o, Tidy(m, B, z, b, DOMAIN o), Served(m, z, o),
         NEW n, NEW C, NEW y, NEW c, NEW Q, Q \subseteq DOMAIN o,
         Tidy(n, C, y, c, Q), Stable(m, B, z, n, C, y, Q),
         NEW x, DOMAIN x = Q, \A p \in Q : x[p] = o[p]
  PROVE  Client(n, c, x)
<1>1. ASSUME NEW p \in DOMAIN x PROVE Serves(n, y, p, x[p])
  <2>1. Serves(n, y, p, o[p])
    BY StillServed
  <2> QED BY <2>1
<1> QED BY <1>1 DEF Client, Served

\* The record of p is new, the others are as they were.
Gains(o, x, p, size, tag, kept) ==
  /\ DOMAIN x = DOMAIN o \cup {p}
  /\ x[p].size = size /\ x[p].tag = tag /\ x[p].kept = kept
  /\ \A q \in DOMAIN o : q # p => x[q] = o[q]

\* The client's record of a new block.
LEMMA OwnIs ==
  ASSUME NEW o, NEW p, NEW size, NEW tag
  PROVE  Gains(o, Own(o, p, size, tag), p, size, tag, size)
<1> DEFINE e == [size |-> size, tag |-> tag, kept |-> size]
<1>0. PICK x : x = Own(o, p, size, tag)
  OBVIOUS
<1>1. x = [q \in DOMAIN o \cup {p} |-> IF q = p THEN e ELSE o[q]]
  BY <1>0, Zenon DEF Own
<1> HIDE DEF e
<1>2. DOMAIN x = DOMAIN o \cup {p} /\ x[p] = e /\ \A q \in DOMAIN o : q # p => x[q] = o[q]
  BY <1>1
<1>3. Gains(o, x, p, size, tag, size)
  BY <1>2 DEF Gains, e
<1> QED BY <1>0, <1>3, Zenon

\* The client's record of a block from realloc, which kept only so many bytes.
LEMMA OwnKeptIs ==
  ASSUME NEW o, NEW p, NEW size, NEW tag, NEW k
  PROVE  Gains(o, [Own(o, p, size, tag) EXCEPT ![p].kept = k], p, size, tag, k)
<1>1. PICK w : w = Own(o, p, size, tag)
  OBVIOUS
<1> DEFINE e == [size |-> size, tag |-> tag, kept |-> size]
           D == DOMAIN o \cup {p}
<1>2. w = [q \in D |-> IF q = p THEN e ELSE o[q]]
  BY <1>1, Zenon DEF Own
<1> HIDE DEF e, D
<1>3. w = [q \in DOMAIN w |-> w[q]]
  BY <1>2
<1>4. DOMAIN w = D /\ w[p] = e /\ \A q \in DOMAIN o : q # p => w[q] = o[q]
  BY <1>2 DEF D
<1> DEFINE x == [w EXCEPT ![p].kept = k]
<1>5. /\ DOMAIN x = DOMAIN w /\ \A q \in DOMAIN w : q # p => x[q] = w[q]
      /\ x[p] = [w[p] EXCEPT !.kept = k]
  BY <1>3, <1>4 DEF D
<1> HIDE DEF x
<1>6. x[p].size = size /\ x[p].tag = tag /\ x[p].kept = k
  <2>1. x[p] = [[size |-> size, tag |-> tag, kept |-> size] EXCEPT !.kept = k]
    BY <1>4, <1>5 DEF e
  <2> QED BY <2>1
<1>7. Gains(o, x, p, size, tag, k)
  BY <1>4, <1>5, <1>6 DEF D, Gains
<1> QED BY <1>1, <1>7, Zenon DEF x

\* The invariant: it also holds after a crash, which leaves the heap as it was.
HeapInv == crashed \in BOOLEAN /\ Client(mem, brk, owned)

\* The heap grows, or the program crashes, only when no free block is large enough.
Sparing(B, z, U, b, c, x) ==
  /\ c > b => Full(B, z, U, c - b)
  /\ x => \E n \in Requests : b + ALIGN(n + META_SIZE) > MaxHeap /\ Full(B, z, U, ALIGN(n + META_SIZE))

\* The end of the heap after a call: where it was, or moved by one request.
Grew(B, z, U, b, size, c) ==
  c = b \/ (c = b + ALIGN(size + META_SIZE) /\ Full(B, z, U, ALIGN(size + META_SIZE)))

\* A call that grew the heap for its request alone spared memory.
LEMMA Spares ==
  ASSUME NEW B, NEW z, NEW U, NEW b \in Int, NEW size \in Requests, NEW c, Grew(B, z, U, b, size, c)
  PROVE  Sparing(B, z, U, b, c, FALSE)
<1>1. META_SIZE = 16 /\ size \in Nat
  BY HeapAssumption DEF META_SIZE, WORD_SIZE
<1>2. PICK k \in Nat : k = ALIGN(size + META_SIZE)
  BY <1>1, AlignIs
<1>3. c = b \/ (c = b + k /\ Full(B, z, U, k))
  BY <1>2 DEF Grew
<1>4. c > b => Full(B, z, U, c - b)
  <2>1. CASE c = b
    BY <2>1
  <2>2. CASE c = b + k /\ Full(B, z, U, k)
    <3>1. c - b = k
      BY <2>2
    <3> QED BY <2>2, <3>1
  <2> QED BY <1>3, <2>1, <2>2
<1> QED BY <1>4 DEF Sparing

\* So did a call that ran into the limit of the heap.
LEMMA CrashSpares ==
  ASSUME NEW m, NEW B, NEW z, NEW U, NEW b \in Int, NEW size \in Requests, NEW r,
         Crashes(m, B, z, b, U, size, r)
  PROVE  Sparing(B, z, U, b, b, TRUE)
BY DEF Sparing, Crashes

\* realloc of the null pointer is malloc.
LEMMA NullKeeps ==
  ASSUME NEW B, NEW z, NEW U, Tidy(mem, B, z, brk, U), NEW size \in Nat
  PROVE  Allocates(mem, B, z, brk, U, size, realloc(NULL, size))
<1> DEFINE p == NULL
           asize == ALIGN(size + META_SIZE)
           next == HEAP_NEXT(mem, p)
           alone == list_remove(mem, next, get_rank(SIZE(mem, next)))
           new == malloc(size)
           same == SIZE(mem, p) >= asize
           low == SIZE(mem, p) < asize
           unused == STAT(mem, next) = UNUSED
           sum == SIZE(mem, p) + SIZE(mem, next) >= asize
           r1 == Answer(free(mem, p), brk, NULL)
           r3 == Answer(mem, brk, p)
           r4 == Answer(place(coalesce(alone, p, next, FALSE), p, asize, FALSE), brk, p)
           r5 == IF new.crashed THEN new
                 ELSE [new EXCEPT !.mem = free(memcpy(@, new.ptr, p, size), p)]
<1>1. realloc(p, size) =
        CASE size = 0 -> r1
          [] size # 0 /\ p = NULL -> new
          [] size # 0 /\ p # NULL /\ same -> r3
          [] size # 0 /\ p # NULL /\ low /\ unused /\ sum -> r4
          [] OTHER -> r5
  BY Zenon DEF realloc
<1>2. free(mem, NULL) = mem
  BY DEF free
<1>3. r1 = Answer(mem, brk, NULL)
  BY <1>2
<1>4. Allocates(mem, B, z, brk, U, size, new)
  BY MallocKeeps
<1> HIDE DEF r1, new, r3, r4, r5, same, low, unused, sum
<1>5. CASE size = 0
  <2>1. realloc(NULL, size) = Answer(mem, brk, NULL)
    BY <1>1, <1>3, <1>5
  <2> QED BY <1>5, <2>1 DEF Answer, Answered, Allocates, Nothing
<1>6. CASE size # 0
  <2>1. realloc(NULL, size) = new
    BY <1>1, <1>6
  <2> QED BY <1>4, <2>1
<1> QED BY <1>5, <1>6

\* A tag the client has not used is one it may write.
LEMMA TagIs ==
  ASSUME FreeTags # {}
  PROVE  Max(FreeTags) \in Tags
<1> DEFINE N == {-t : t \in FreeTags}
<1>1. FreeTags \subseteq Tags /\ \A t \in FreeTags : t \in Int /\ -t \in Nat
  BY HeapAssumption DEF FreeTags
<1>2. N \in SUBSET Nat /\ N # {}
  BY <1>1
<1> HIDE DEF N
<1>3. PICK n \in N : \A k \in N : n =< k
  BY <1>2, Least
<1>4. PICK t \in FreeTags : n = -t
  BY DEF N
<1>5. \A u \in FreeTags : t >= u
  <2> SUFFICES ASSUME NEW u \in FreeTags PROVE t >= u
    OBVIOUS
  <2>1. -u \in N
    BY DEF N
  <2>2. n =< -u /\ t \in Int /\ u \in Int
    BY <1>1, <1>3, <2>1
  <2> QED BY <1>4, <2>2
<1>6. Max(FreeTags) \in FreeTags
  BY <1>5 DEF Max
<1> QED BY <1>1, <1>6

-----------------------------------------------------------------------------
(* The client: every step of Next keeps it served.                         *)

\* What a new block is filled with.
Fillings == Tags \cup {0}

LEMMA FillingsFit == Fillings \subseteq Val
BY DEF Fillings, Val

\* The client has the blocks of S as before and one of n bytes at q.
Comes(S, q, n, tag, kept) ==
  /\ DOMAIN owned' = S \cup {q} /\ q \notin S
  /\ owned'[q].size = n /\ owned'[q].tag = tag /\ owned'[q].kept = kept
  /\ \A t \in S : owned'[t] = owned[t]

\* The break moves by no more than n bytes need.
Widens(n) == brk' = brk \/ brk' = brk + ALIGN(n + META_SIZE)

\* What a call comes to for the client: nothing, a crash, a new block, a block that
\* has another size and perhaps another place, a block less, or no block at all.
Outcome ==
  \/ /\ DOMAIN owned' = DOMAIN owned /\ \A t \in DOMAIN owned : owned'[t] = owned[t]
     /\ brk' = brk /\ crashed' = FALSE
  \/ \E n \in Requests \ {0} :
       /\ owned' = owned /\ brk' = brk /\ crashed' = TRUE
       /\ brk + ALIGN(n + META_SIZE) > MaxHeap
  \/ \E q : \E n \in Requests \ {0}, v \in Fillings :
       Comes(DOMAIN owned, q, n, v, n) /\ Widens(n) /\ crashed' = FALSE
  \/ \E q : \E t \in DOMAIN owned, n \in Requests \ {0} :
       /\ Comes(DOMAIN owned \ {t}, q, n, owned[t].tag, Min({n, owned[t].kept}))
       /\ Widens(n) /\ crashed' = FALSE
  \/ \E t \in DOMAIN owned :
       /\ owned' = [q \in DOMAIN owned \ {t} |-> owned[q]]
       /\ brk' = brk /\ crashed' = FALSE
  \/ owned' = [q \in {} |-> 0] /\ brk' = FirstBlock /\ crashed' = FALSE

\* One step from a heap with the blocks B keeps the client served.
Advances(B, z) ==
  /\ crashed' \in BOOLEAN /\ Client(mem', brk', owned') /\ Outcome
  /\ Sparing(B, z, DOMAIN owned, brk, brk', crashed')

\* A call of malloc, calloc or realloc that crashes or answers NULL for no bytes.
LEMMA NoneGained ==
  ASSUME NEW B, NEW z, Tidy(mem, B, z, brk, DOMAIN owned), Served(mem, z, owned),
         NEW size \in Requests, NEW r,
         Crashes(mem, B, z, brk, DOMAIN owned, size, r) \/ Nothing(mem, brk, size, r),
         mem' = mem, brk' = brk, owned' = owned, crashed' = r.crashed
  PROVE  Advances(B, z)
<1>1. brk \in Int
  BY DEF Tidy, HeapAt, Shape
<1>2. Client(mem', brk', owned')
  BY DEF Client
<1>3. CASE Crashes(mem, B, z, brk, DOMAIN owned, size, r)
  <2>1. crashed' = TRUE
    BY <1>3 DEF Crashes
  <2>2. Sparing(B, z, DOMAIN owned, brk, brk, TRUE)
    BY <1>1, <1>3, CrashSpares
  <2>3. size \in Requests \ {0} /\ brk + ALIGN(size + META_SIZE) > MaxHeap
    BY <1>3 DEF Crashes
  <2>4. Outcome
    BY <2>1, <2>3 DEF Outcome
  <2> QED BY <1>2, <2>1, <2>2, <2>4 DEF Advances
<1>4. CASE Nothing(mem, brk, size, r)
  <2>1. crashed' = FALSE
    BY <1>4 DEF Nothing
  <2>2. Sparing(B, z, DOMAIN owned, brk, brk, FALSE)
    BY <1>1 DEF Sparing
  <2>3. Outcome
    BY <2>1 DEF Outcome
  <2> QED BY <1>2, <2>1, <2>2, <2>3 DEF Advances
<1> QED BY <1>3, <1>4

\* A call of malloc or calloc that gives the client a block.
LEMMA OneGained ==
  ASSUME NEW B, NEW z, Tidy(mem, B, z, brk, DOMAIN owned), Served(mem, z, owned),
         NEW size \in Requests, NEW r, Grants(mem, B, z, brk, DOMAIN owned, size, r), NEW v \in Fillings,
         mem' = memset(r.mem, r.ptr, size, v), brk' = r.brk, crashed' = r.crashed,
         owned' = Own(owned, r.ptr, size, v)
  PROVE  Advances(B, z)
<1> DEFINE U == DOMAIN owned
<1>1. PICK q, c, m0 : r.ptr = q /\ r.brk = c /\ r.mem = m0
  OBVIOUS
<1>2. size # 0 /\ q \notin U /\ r.crashed = FALSE /\ Grew(B, z, U, brk, size, c)
  BY <1>1 DEF Grants, Grew
<1>3. PICK C, y : Tidy(m0, C, y, c, U \cup {q}) /\ Stable(mem, B, z, m0, C, y, U) /\ y[q] >= size + 16
  BY <1>1 DEF Grants
<1> DEFINE n == memset(m0, q, size, v)
           x == Own(owned, q, size, v)
<1>4. mem' = n /\ owned' = x /\ brk' = c /\ crashed' = FALSE
  BY <1>1, <1>2
<1>5. size \in Nat /\ v \in Val
  BY HeapAssumption, FillingsFit
<1>6. /\ Tidy(n, C, y, c, U \cup {q})
      /\ Stable(m0, C, y, n, C, y, (U \cup {q}) \ {q})
      /\ \A a \in Span(q, size) : n[a] = v
  <2> DEFINE T == U \cup {q}
  <2>1. q \in T
    OBVIOUS
  <2> HIDE DEF T
  <2> QED BY <1>3, <1>5, <2>1, FillKeeps DEF T
<1> HIDE DEF n
<1>7. DOMAIN x = U \cup {q} /\ x[q].size = size /\ x[q].tag = v /\ x[q].kept = size
      /\ \A p \in U : x[p] = owned[p]
  <2>1. Gains(owned, x, q, size, v, size)
    BY OwnIs
  <2> HIDE DEF x
  <2> QED BY <1>2, <2>1 DEF Gains
<1> HIDE DEF x
<1>8. Serves(n, y, q, x[q])
  BY <1>3, <1>5, <1>6, <1>7 DEF Serves, Record
<1>9. Stable(mem, B, z, n, C, y, U)
  <2>1. (U \cup {q}) \ {q} = U
    BY <1>2
  <2>2. Stable(m0, C, y, n, C, y, U)
    BY <1>6, <2>1
  <2> HIDE DEF U
  <2> QED BY <1>3, <2>2, StableThrough
<1>10. Client(n, c, x)
  <2>1. Tidy(n, C, y, c, U \cup {q})
    BY <1>6
  <2> QED BY <1>2, <1>7, <1>8, <1>9, <2>1, GainsClient
<1>11. brk \in Int
  BY DEF Tidy, HeapAt, Shape
<1>12. Sparing(B, z, U, brk, c, FALSE)
  BY <1>2, <1>11, Spares
<1>13. Outcome
  <2>1. Comes(U, q, size, v, size)
    BY <1>2, <1>4, <1>7 DEF Comes
  <2>2. Widens(size) /\ size \in Requests \ {0}
    BY <1>2, <1>4 DEF Widens, Grew
  <2> QED BY <1>4, <2>1, <2>2 DEF Outcome
<1> QED BY <1>4, <1>10, <1>12, <1>13 DEF Advances

\* The step of malloc, or of realloc(NULL, size), and the client's first write.
LEMMA MallocStep ==
  ASSUME NEW B, NEW z, Tidy(mem, B, z, brk, DOMAIN owned), Served(mem, z, owned),
         NEW size \in Requests, Malloc(size)
  PROVE  Advances(B, z)
<1>1. PICK r \in {malloc(size), realloc(NULL, size)} :
        /\ FreeTags # {}
        /\ brk' = r.brk /\ crashed' = r.crashed
        /\ r.ptr = NULL => mem' = r.mem /\ owned' = owned
        /\ r.ptr # NULL => /\ mem' = memset(r.mem, r.ptr, size, Max(FreeTags))
                           /\ owned' = Own(owned, r.ptr, size, Max(FreeTags))
  BY DEF Malloc
<1>2. size \in Nat
  BY HeapAssumption
<1>3. Allocates(mem, B, z, brk, DOMAIN owned, size, r)
  BY <1>2, MallocKeeps, NullKeeps
<1>4. CASE Crashes(mem, B, z, brk, DOMAIN owned, size, r) \/ Nothing(mem, brk, size, r)
  <2>1. r.ptr = NULL /\ r.mem = mem /\ r.brk = brk
    BY <1>4 DEF Crashes, Nothing
  <2>2. mem' = mem /\ brk' = brk /\ owned' = owned /\ crashed' = r.crashed
    BY <1>1, <2>1
  <2> QED BY <1>4, <2>2, NoneGained
<1>5. CASE Grants(mem, B, z, brk, DOMAIN owned, size, r)
  <2>1. r.ptr # NULL
    BY <1>5 DEF Grants
  <2>2. PICK v \in Fillings : v = Max(FreeTags)
    BY <1>1, TagIs DEF Fillings
  <2>3. /\ mem' = memset(r.mem, r.ptr, size, v) /\ brk' = r.brk /\ crashed' = r.crashed
        /\ owned' = Own(owned, r.ptr, size, v)
    BY <1>1, <2>1, <2>2
  <2> QED BY <1>5, <2>3, OneGained
<1> QED BY <1>3, <1>4, <1>5 DEF Allocates

\* The step of calloc.
LEMMA CallocStep ==
  ASSUME NEW B, NEW z, Tidy(mem, B, z, brk, DOMAIN owned), Served(mem, z, owned),
         NEW size \in Requests, Calloc(size)
  PROVE  Advances(B, z)
<1>0. PICK r : r = malloc(size)
  OBVIOUS
<1> DEFINE n == memset(r.mem, r.ptr, IF r.crashed THEN 0 ELSE size, 0)
           o == [r EXCEPT !.mem = n]
<1>1. calloc(size) = o
  <2>1. calloc(size) = [malloc(size) EXCEPT
                          !.mem = memset(@, malloc(size).ptr, IF malloc(size).crashed THEN 0 ELSE size, 0)]
    BY Zenon DEF calloc
  <2> QED BY <1>0, <2>1, Zenon
<1>2. size \in Nat
  BY HeapAssumption
<1>3. Allocates(mem, B, z, brk, DOMAIN owned, size, r)
  BY <1>0, <1>2, MallocKeeps
<1>4. o.mem = n /\ o.brk = r.brk /\ o.ptr = r.ptr /\ o.crashed = r.crashed
  <2>1. Answered(r)
    BY <1>3 DEF Allocates
  <2> HIDE DEF n
  <2> QED BY <2>1, Replaced
<1> HIDE DEF n, o
<1>5. /\ mem' = n /\ brk' = r.brk /\ crashed' = r.crashed
      /\ owned' = IF r.ptr = NULL THEN owned ELSE Own(owned, r.ptr, size, 0)
  <2>1. /\ mem' = calloc(size).mem /\ brk' = calloc(size).brk /\ crashed' = calloc(size).crashed
        /\ owned' = IF calloc(size).ptr = NULL THEN owned ELSE Own(owned, calloc(size).ptr, size, 0)
    BY DEF Calloc
  <2> QED BY <1>1, <1>4, <2>1
<1>6. 0 \in Fillings
  BY DEF Fillings
<1>7. CASE Crashes(mem, B, z, brk, DOMAIN owned, size, r) \/ Nothing(mem, brk, size, r)
  <2>1. /\ r.ptr = NULL /\ r.mem = mem /\ r.brk = brk
        /\ r.crashed = TRUE \/ (size = 0 /\ r.crashed = FALSE)
    BY <1>7 DEF Crashes, Nothing
  <2>2. mem \in [Words -> Val] /\ NULL \in Int
    BY DEF Tidy, HeapAt, NULL
  <2>3. n = memset(mem, NULL, 0, 0)
    BY <2>1 DEF n
  <2>4. n = mem
    BY <2>2, <2>3, FillNone
  <2>5. mem' = mem /\ brk' = brk /\ owned' = owned /\ crashed' = r.crashed
    BY <1>5, <2>1, <2>4
  <2> QED BY <1>7, <2>5, NoneGained
<1>8. CASE Grants(mem, B, z, brk, DOMAIN owned, size, r)
  <2>1. r.ptr # NULL /\ r.crashed = FALSE
    BY <1>8 DEF Grants
  <2>2. n = memset(r.mem, r.ptr, size, 0)
    BY <2>1 DEF n
  <2>3. /\ mem' = memset(r.mem, r.ptr, size, 0) /\ brk' = r.brk /\ crashed' = r.crashed
        /\ owned' = Own(owned, r.ptr, size, 0)
    BY <1>5, <2>1, <2>2
  <2> QED BY <1>6, <1>8, <2>3, OneGained
<1> QED BY <1>3, <1>7, <1>8 DEF Allocates

\* A call that neither grows the heap nor crashes.
LEMMA Sober ==
  ASSUME NEW B, NEW z, NEW U, NEW b \in Int, NEW c \in Int, c =< b
  PROVE  Sparing(B, z, U, b, c, FALSE)
BY DEF Sparing

\* The step of free, of a block or of NULL.
LEMMA FreeStep ==
  ASSUME NEW B, NEW z, Tidy(mem, B, z, brk, DOMAIN owned), Served(mem, z, owned),
         crashed \in BOOLEAN, NEW p \in DOMAIN owned \cup {NULL}, Free(p)
  PROVE  Advances(B, z)
<1> DEFINE U == DOMAIN owned
           V == U \ {p}
<1>1. Shape(B, z, brk) /\ U \subseteq B /\ brk \in Int
  BY DEF Tidy, HeapAt, Shape
<1>2. /\ mem' = free(mem, p) /\ brk' = brk /\ crashed' = FALSE
      /\ owned' = [q \in DOMAIN owned \ {p} |-> owned[q]]
  BY DEF Free
<1>3. DOMAIN owned' = V /\ \A q \in V : owned'[q] = owned[q]
  BY <1>2
<1>4. Sparing(B, z, U, brk, brk, FALSE)
  <2>1. brk \in Int /\ brk =< brk
    BY <1>1
  <2> HIDE DEF U
  <2> QED BY <2>1, Sober
<1>5. CASE p \in U
  <2> DEFINE n == free(mem, p)
  <2>1. PICK C, y : Tidy(n, C, y, brk, V) /\ Stable(mem, B, z, n, C, y, V)
    BY <1>5, FreeKeeps
  <2>2. V \subseteq DOMAIN owned
    OBVIOUS
  <2> HIDE DEF n, V
  <2>3. Client(n, brk, owned')
    BY <1>3, <2>1, <2>2, KeepsClient
  <2>4. Outcome
    BY <1>2, <1>5 DEF Outcome
  <2> QED BY <1>2, <1>4, <2>3, <2>4 DEF Advances, n
<1>6. CASE p = NULL
  <2>1. NULL \notin U
    BY <1>1, Cells
  <2>2. V = U
    BY <1>6, <2>1
  <2>3. mem' = mem
    BY <1>2, <1>6 DEF free
  <2>4. Stable(mem, B, z, mem, B, z, U)
    BY <1>1, HoldsSelf DEF Stable
  <2>5. DOMAIN owned' = U /\ \A q \in U : owned'[q] = owned[q]
    BY <1>3, <2>2
  <2>6. Client(mem, brk, owned')
    BY <2>4, <2>5, KeepsClient
  <2>7. Outcome
    BY <1>2, <2>5 DEF Outcome
  <2> QED BY <1>2, <1>4, <2>3, <2>6, <2>7 DEF Advances
<1> QED BY <1>5, <1>6

\* The step of mem_reset_brk and mm_init.
LEMMA ResetStep ==
  ASSUME NEW B, NEW z, Tidy(mem, B, z, brk, DOMAIN owned), Reset
  PROVE  Advances(B, z)
<1>1. mem \in [Words -> Val] /\ brk \in Int /\ FirstBlock =< brk /\ FirstBlock \in Int
  BY Layout DEF Tidy, HeapAt, Shape
<1>2. mem' = mm_init(mem) /\ brk' = FirstBlock /\ owned' = [p \in {} |-> 0] /\ crashed' = FALSE
  BY DEF Reset, FirstBlock
<1>3. Tidy(mm_init(mem), {}, [p \in {} |-> 0], FirstBlock, {})
  BY <1>1, ResetKeeps
<1>4. DOMAIN owned' = {}
  BY <1>2
<1>5. Client(mem', brk', owned')
  BY <1>2, <1>3, <1>4 DEF Client, Served
<1>6. Sparing(B, z, DOMAIN owned, brk, FirstBlock, FALSE)
  BY <1>1, Sober
<1>7. Outcome
  BY <1>2 DEF Outcome
<1> QED BY <1>2, <1>5, <1>6, <1>7 DEF Advances

\* The heap the driver starts with.
LEMMA InitClient ==
  ASSUME Init
  PROVE  HeapInv
<1> DEFINE m == [a \in Words |-> 0]
<1>1. m \in [Words -> Val]
  BY DEF Val
<1>2. mem = mm_init(m) /\ brk = FirstBlock /\ owned = [p \in {} |-> 0] /\ crashed = FALSE
  BY DEF Init, FirstBlock
<1> HIDE DEF m
<1>3. Tidy(mm_init(m), {}, [p \in {} |-> 0], FirstBlock, {})
  BY <1>1, ResetKeeps
<1>4. DOMAIN owned = {}
  BY <1>2
<1> QED BY <1>2, <1>3, <1>4 DEF HeapInv, Client, Served

\* The smaller of two sizes, which realloc keeps.
LEMMA MinTwo ==
  ASSUME NEW j \in Nat, NEW k \in Nat
  PROVE  /\ Min({j, k}) \in Nat /\ Min({j, k}) =< j /\ Min({j, k}) =< k
         /\ Min({j, k}) \in {j, k}
<1>1. PICK S \in SUBSET Nat : S = {j, k}
  OBVIOUS
<1>2. PICK n \in S : \A i \in S : n =< i
  BY <1>1, Least
<1>3. Min(S) \in S /\ \A i \in S : Min(S) =< i
  BY <1>2 DEF Min
<1> QED BY <1>1, <1>3

\* The bytes of an old block are the ones realloc moved.
LEMMA MovedServes ==
  ASSUME NEW m, NEW B, NEW z, NEW b, Shape(B, z, b), NEW p \in B, NEW e, Serves(m, z, p, e),
         NEW n, NEW C, NEW y, NEW c, Shape(C, y, c), NEW q \in C,
         NEW x, x.size \in Nat, x.kept \in Nat, x.kept =< x.size, x.kept =< e.kept, x.tag = e.tag,
         Moves(m, n, p, q, x.kept), y[q] >= x.size + 16
  PROVE  Serves(n, y, q, x)
<1>1. p \in Int /\ q \in Int /\ z[p] \in Nat /\ p % 8 = 0 /\ q % 8 = 0 /\ FirstBlock =< p /\ p + z[p] =< MaxHeap
  <2>1. p \in Int /\ q \in Int /\ z[p] \in Nat
    BY Cells
  <2>2. p % 8 = 0 /\ q % 8 = 0 /\ FirstBlock =< p /\ p + z[p] =< b /\ b =< MaxHeap /\ b \in Int
    BY DEF Shape
  <2>3. MaxHeap \in Int
    BY Layout
  <2> QED BY <2>1, <2>2, <2>3
<1>2. /\ e.size \in Nat /\ e.kept \in Nat /\ e.kept =< e.size /\ e.tag \in Val /\ z[p] >= e.size + 16
      /\ \A a \in Span(p, e.kept) : m[a] = e.tag
  BY DEF Serves, Record
<1>3. ASSUME NEW a \in Span(q, x.kept) PROVE n[a] = x.tag
  <2>1. a \in Words /\ a \in Int /\ a % 4 = 0 /\ q =< a /\ a < q + x.kept
    BY DEF Span, Words, WORD_SIZE
  <2>2. PICK d \in Nat : d = a - q /\ d < x.kept
    BY <1>1, <2>1
  <2>3. d % 4 = 0
    <3>1. (a - q) % 4 = 0
      BY <1>1, <2>1
    <3> QED BY <2>2, <3>1
  <2>4. (p + d) % 4 = 0
    BY <1>1, <2>3
  <2>5. d < e.kept /\ p + d < MaxHeap /\ p =< p + d
    BY <1>1, <1>2, <2>2, Layout
  <2>6. p + d \in Words
    BY <1>1, <2>4, <2>5, Layout DEF Words, WORD_SIZE
  <2>7. p + d \in Span(p, e.kept)
    BY <1>1, <1>2, <2>2, <2>5, <2>6 DEF Span
  <2>8. n[a] = m[p + (a - q)]
    BY <2>1 DEF Moves
  <2> QED BY <1>2, <2>2, <2>7, <2>8
<1> QED BY <1>2, <1>3 DEF Serves, Record

\* The step of realloc, for a block of the client.
LEMMA ReallocStep ==
  ASSUME NEW B, NEW z, Tidy(mem, B, z, brk, DOMAIN owned), Served(mem, z, owned),
         NEW p \in DOMAIN owned, NEW size \in Requests, Realloc(p, size)
  PROVE  Advances(B, z)
<1> DEFINE U == DOMAIN owned
           V == U \ {p}
           k == Min({size, owned[p].kept})
           rest == [q \in V |-> owned[q]]
<1>0. PICK r : r = realloc(p, size)
  OBVIOUS
<1>1. Shape(B, z, brk) /\ U \subseteq B /\ brk \in Int /\ size \in Nat
  BY HeapAssumption DEF Tidy, HeapAt, Shape
<1>2. /\ mem' = r.mem /\ brk' = r.brk /\ crashed' = r.crashed
      /\ owned' = CASE r.crashed -> owned
                    [] r.ptr = NULL /\ ~r.crashed -> rest
                    [] OTHER -> [Own(rest, r.ptr, size, owned[p].tag) EXCEPT ![r.ptr].kept = k]
  BY <1>0, Zenon DEF Realloc
<1>3. Serves(mem, z, p, owned[p])
  BY DEF Served
<1> DEFINE e == owned[p]
<1>4. e.size \in Nat /\ e.kept \in Nat /\ e.kept =< e.size /\ z[p] >= e.size + 16
  BY <1>3 DEF Serves, Record
<1>5. k \in Nat /\ k =< size /\ k =< e.kept
  BY <1>1, <1>4, MinTwo
<1>6. k =< z[p] - 16
  <2>1. z[p] \in Nat
    BY <1>1, Cells
  <2> HIDE DEF k, e
  <2> QED BY <1>4, <1>5, <2>1
<1> HIDE DEF k
<1>7. Reallocates(mem, B, z, brk, U, p, size, k, r)
  BY <1>0, <1>1, <1>5, <1>6, ReallocKeeps
<1>8. DOMAIN rest = V /\ \A q \in V : rest[q] = owned[q]
  OBVIOUS
<1> HIDE DEF rest
<1>9. CASE Crashes(mem, B, z, brk, U, size, r)
  <2>1. r.ptr = NULL /\ r.mem = mem /\ r.brk = brk /\ r.crashed = TRUE
    BY <1>9 DEF Crashes
  <2>2. mem' = mem /\ brk' = brk /\ owned' = owned /\ crashed' = r.crashed
    BY <1>2, <2>1
  <2> QED BY <1>9, <2>2, NoneGained
<1>10. CASE Frees(mem, B, z, brk, U, p, size, r)
  <2>1. r.ptr = NULL /\ r.brk = brk /\ r.crashed = FALSE
    BY <1>10 DEF Frees
  <2>2. owned' = rest /\ brk' = brk /\ crashed' = FALSE
    BY <1>2, <2>1
  <2>3. PICK C, y : Tidy(r.mem, C, y, brk, V) /\ Stable(mem, B, z, r.mem, C, y, V)
    BY <1>10 DEF Frees
  <2>4. V \subseteq U
    OBVIOUS
  <2> HIDE DEF V
  <2>5. Client(r.mem, brk, rest)
    BY <1>8, <2>3, <2>4, KeepsClient
  <2>6. brk =< brk
    BY <1>1
  <2>7. Sparing(B, z, U, brk, brk, FALSE)
    BY <1>1, <2>6, Sober
  <2>8. Outcome
    BY <2>2 DEF Outcome, rest, V
  <2> QED BY <1>2, <2>2, <2>5, <2>7, <2>8 DEF Advances
<1>11. CASE Resizes(mem, B, z, brk, U, p, size, k, r)
  <2>0. PICK q, c, n : r.ptr = q /\ r.brk = c /\ r.mem = n
    OBVIOUS
  <2>1. /\ size # 0 /\ q # NULL /\ q \notin V /\ r.crashed = FALSE /\ Grew(B, z, U, brk, size, c)
        /\ Moves(mem, n, p, q, k)
    BY <1>11, <2>0 DEF Resizes, Grew
  <2>2. PICK C, y : /\ Tidy(n, C, y, c, V \cup {q}) /\ Stable(mem, B, z, n, C, y, V)
                    /\ y[q] >= size + 16
    BY <1>11, <2>0 DEF Resizes
  <2> DEFINE x == [Own(rest, q, size, e.tag) EXCEPT ![q].kept = k]
             arm1 == owned
             arm2 == rest
             arm3 == [Own(rest, r.ptr, size, owned[p].tag) EXCEPT ![r.ptr].kept = k]
  <2>3. owned' = x
    <3>1. owned' = CASE r.crashed -> owned [] r.ptr = NULL /\ ~r.crashed -> rest [] OTHER -> arm3
      BY <1>2, Zenon
    <3> HIDE DEF arm3
    <3>2. owned' = arm3
      BY <2>0, <2>1, <3>1
    <3> QED BY <2>0, <3>2, Zenon DEF arm3
  <2>4. Gains(rest, x, q, size, e.tag, k)
    BY OwnKeptIs
  <2> HIDE DEF x, e
  <2>5. DOMAIN x = V \cup {q} /\ x[q].size = size /\ x[q].tag = e.tag /\ x[q].kept = k
        /\ \A t \in V : x[t] = owned[t]
    BY <1>8, <2>1, <2>4 DEF Gains
  <2>6. Shape(C, y, c) /\ q \in C
    BY <2>2 DEF Tidy, HeapAt
  <2>7. Serves(mem, z, p, e) /\ p \in B
    BY <1>1, <1>3 DEF e
  <2>8. Serves(n, y, q, x[q])
    <3> DEFINE f == x[q]
    <3>1. f.size \in Nat /\ f.kept \in Nat /\ f.kept =< f.size /\ f.kept =< e.kept /\ f.tag = e.tag
      BY <1>1, <1>5, <2>5
    <3>2. Moves(mem, n, p, q, f.kept) /\ y[q] >= f.size + 16
      BY <2>1, <2>2, <2>5
    <3> HIDE DEF f
    <3>3. Serves(n, y, q, f)
      BY <1>1, <2>6, <2>7, <3>1, <3>2, MovedServes
    <3> QED BY <3>3 DEF f
  <2>9. V \subseteq U
    OBVIOUS
  <2> HIDE DEF V
  <2>10. Client(n, c, x)
    <3>1. Tidy(n, C, y, c, V \cup {q}) /\ Stable(mem, B, z, n, C, y, V) /\ q \notin V
      BY <2>1, <2>2
    <3>2. DOMAIN x = V \cup {q} /\ \A t \in V : x[t] = owned[t]
      BY <2>5
    <3>3. V \subseteq DOMAIN owned
      BY <2>9
    <3>4. Tidy(mem, B, z, brk, DOMAIN owned) /\ Served(mem, z, owned)
      OBVIOUS
    <3> HIDE DEF U
    <3>5. ASSUME NEW t \in V PROVE Serves(n, y, t, owned[t])
      BY <3>1, <3>3, <3>4, StillServed
    <3>6. \A t \in DOMAIN x : Serves(n, y, t, x[t])
      BY <2>8, <3>2, <3>5
    <3>7. Tidy(n, C, y, c, DOMAIN x)
      BY <3>1, <3>2
    <3> QED BY <3>6, <3>7 DEF Client, Served
  <2>11. Sparing(B, z, U, brk, c, FALSE)
    BY <1>1, <2>1, Spares
  <2>12. Outcome
    <3>1. Comes(V, q, size, e.tag, k)
      BY <2>1, <2>3, <2>5 DEF Comes
    <3>2. Widens(size) /\ size \in Requests \ {0} /\ crashed' = FALSE
      BY <1>2, <2>0, <2>1 DEF Widens, Grew
    <3> QED BY <3>1, <3>2 DEF Outcome, V, e, k
  <2> QED BY <1>2, <2>0, <2>1, <2>3, <2>10, <2>11, <2>12 DEF Advances
<1> QED BY <1>7, <1>9, <1>10, <1>11 DEF Reallocates

\* Every call keeps the client served.
LEMMA StepAdvances ==
  ASSUME HeapInv, NEW B, NEW z, Tidy(mem, B, z, brk, DOMAIN owned), Served(mem, z, owned), Next
  PROVE  Advances(B, z)
<1>1. CASE \E size \in Requests : Malloc(size)
  BY <1>1, MallocStep
<1>2. CASE \E size \in Requests : Calloc(size)
  BY <1>2, CallocStep
<1>3. CASE \E p \in DOMAIN owned \cup {NULL} : Free(p)
  BY <1>3, FreeStep DEF HeapInv
<1>4. CASE \E p \in DOMAIN owned, size \in Requests : Realloc(p, size)
  BY <1>4, ReallocStep
<1>5. CASE Reset
  BY <1>5, ResetStep
<1> QED BY <1>1, <1>2, <1>3, <1>4, <1>5 DEF Next

\* Between any two calls of malloc, calloc, free and realloc the memory is a heap: blocks
\* that tile it, headed and footed, the free ones in the list of their rank and no two of
\* them neighbours, the used ones the client's, large enough and with its bytes.
THEOREM HeapInvariant == Spec => []HeapInv
<1>1. Init => HeapInv
  BY InitClient
<1>2. HeapInv /\ [Next]_vars => HeapInv'
  <2> SUFFICES ASSUME HeapInv, [Next]_vars PROVE HeapInv'
    OBVIOUS
  <2>1. CASE Next
    <3>1. PICK B, z : Tidy(mem, B, z, brk, DOMAIN owned) /\ Served(mem, z, owned)
      BY DEF HeapInv, Client
    <3>2. Advances(B, z)
      BY <2>1, <3>1, StepAdvances
    <3> QED BY <3>2 DEF Advances, HeapInv, Client
  <2>2. CASE UNCHANGED vars
    BY <2>2 DEF vars, HeapInv, Client
  <2> QED BY <2>1, <2>2
<1> QED BY <1>1, <1>2, PTL DEF Spec

-----------------------------------------------------------------------------
(* The walk of the heap.                                                   *)

\* A block's place is the number of blocks before it.
Before(B, p) == {q \in B : q < p}

Place(B, p) == Cardinality(Before(B, p))

\* There are finitely many blocks between prologue and epilogue.
LEMMA BlocksFinite ==
  ASSUME NEW B, NEW z, NEW b, Shape(B, z, b)
  PROVE  IsFiniteSet(B) /\ Cardinality(B) \in Nat
<1>1. B \subseteq FirstBlock..b /\ FirstBlock \in Int /\ b \in Int
  <2>1. b \in Int /\ FirstBlock \in Int /\ B \in SUBSET Int
    BY Layout DEF Shape
  <2>2. ASSUME NEW p \in B PROVE p \in FirstBlock..b
    <3>1. p \in Int /\ z[p] \in Nat /\ FirstBlock =< p /\ p + z[p] =< b
      BY DEF Shape
    <3> QED BY <2>1, <3>1
  <2> QED BY <2>1, <2>2
<1>2. IsFiniteSet(FirstBlock..b)
  BY <1>1, FS_Interval
<1>3. IsFiniteSet(B)
  BY <1>1, <1>2, FS_Subset
<1> QED BY <1>3, FS_CardinalityType

\* The places of the blocks, and of the epilogue, count up from the first.
LEMMA PlacesCount ==
  ASSUME NEW B, NEW z, NEW b, Shape(B, z, b)
  PROVE  /\ \A p \in B \cup {b} : Place(B, p) \in Nat
         /\ \A p \in B : Place(B, p + z[p]) = Place(B, p) + 1 /\ Place(B, p) < Cardinality(B)
         /\ Place(B, FirstBlock) = 0 /\ Place(B, b) = Cardinality(B)
<1>1. IsFiniteSet(B) /\ Cardinality(B) \in Nat
  BY BlocksFinite
<1>2. ASSUME NEW p PROVE IsFiniteSet(Before(B, p)) /\ Place(B, p) \in Nat
  <2>1. Before(B, p) \in SUBSET B
    BY DEF Before
  <2>2. IsFiniteSet(Before(B, p))
    BY <1>1, <2>1, FS_Subset
  <2> QED BY <2>2, FS_CardinalityType DEF Place
<1>3. ASSUME NEW p \in B
      PROVE  Place(B, p + z[p]) = Place(B, p) + 1 /\ Place(B, p) < Cardinality(B)
  <2>1. ASSUME NEW q \in B PROVE q < p + z[p] <=> (q < p \/ q = p)
    <3>1. p \in Int /\ q \in Int /\ z[p] \in Nat /\ z[p] >= 24
      BY Cells
    <3>2. p < q => p + z[p] =< q
      BY DEF Shape
    <3> QED BY <3>1, <3>2
  <2>2. Before(B, p + z[p]) = Before(B, p) \cup {p}
    BY <2>1 DEF Before
  <2>3. p \notin Before(B, p)
    BY Cells DEF Before
  <2>4. /\ IsFiniteSet(Before(B, p) \cup {p})
        /\ Cardinality(Before(B, p) \cup {p}) = Cardinality(Before(B, p)) + 1
    BY <1>2, <2>3, FS_AddElement
  <2>5. Before(B, p) \cup {p} \in SUBSET B
    BY DEF Before
  <2>6. Cardinality(Before(B, p) \cup {p}) =< Cardinality(B)
    BY <1>1, <2>5, FS_Subset
  <2>7. Place(B, p + z[p]) = Place(B, p) + 1
    BY <2>2, <2>4 DEF Place
  <2>8. Place(B, p) + 1 =< Cardinality(B)
    BY <2>4, <2>6 DEF Place
  <2> QED BY <1>1, <1>2, <2>7, <2>8
<1>4. Place(B, FirstBlock) = 0
  <2>1. ASSUME NEW q \in B PROVE ~(q < FirstBlock)
    BY Layout DEF Shape
  <2>2. Before(B, FirstBlock) = {}
    BY <2>1 DEF Before
  <2> QED BY <2>2, FS_EmptySet DEF Place
<1>5. Place(B, b) = Cardinality(B)
  <2>1. ASSUME NEW q \in B PROVE q < b
    BY Cells
  <2>2. Before(B, b) = B
    BY <2>1 DEF Before
  <2> QED BY <2>2 DEF Place
<1> QED BY <1>2, <1>3, <1>4, <1>5

\* Two blocks have two places.
LEMMA PlacesDiffer ==
  ASSUME NEW B, NEW z, NEW b, Shape(B, z, b), NEW p \in B, NEW q \in B, Place(B, p) = Place(B, q)
  PROVE  p = q
<1>1. ASSUME NEW s \in B, NEW t \in B, s < t PROVE Place(B, s) < Place(B, t)
  <2>1. s \in Int /\ t \in Int /\ z[s] \in Nat /\ s + z[s] =< t
    BY <1>1, Cells DEF Shape
  <2>2. PICK u \in Int : u = s + z[s] /\ u =< t
    BY <2>1
  <2>3. Before(B, u) \in SUBSET Before(B, t)
    <3>1. ASSUME NEW x \in B, x < u PROVE x < t
      <4>1. x \in Int
        BY Cells
      <4> QED BY <2>1, <2>2, <3>1, <4>1
    <3> QED BY <3>1 DEF Before
  <2>4. IsFiniteSet(Before(B, t))
    <3>1. IsFiniteSet(B)
      BY BlocksFinite
    <3>2. Before(B, t) \in SUBSET B
      BY DEF Before
    <3> QED BY <3>1, <3>2, FS_Subset
  <2>5. Place(B, u) =< Place(B, t)
    BY <2>3, <2>4, FS_Subset DEF Place
  <2>6. Place(B, u) = Place(B, s) + 1 /\ Place(B, s) \in Nat /\ Place(B, t) \in Nat
    BY <2>2, PlacesCount
  <2> QED BY <2>5, <2>6
<1>2. Place(B, p) \in Nat
  BY PlacesCount
<1>3. p \in Int /\ q \in Int
  BY Cells
<1>4. ~(p < q) /\ ~(q < p)
  BY <1>1, <1>2
<1> QED BY <1>3, <1>4

\* Every place below the number of blocks is the place of one.
LEMMA EveryPlace ==
  ASSUME NEW B, NEW z, NEW b, Shape(B, z, b), NEW n \in Nat, n < Cardinality(B)
  PROVE  \E p \in B : Place(B, p) = n
<1> DEFINE K == Cardinality(B)
           D == {k \in Nat : k < K /\ \A p \in B : Place(B, p) # k}
<1> SUFFICES ASSUME D # {} PROVE FALSE
  OBVIOUS
<1>1. K \in Nat
  BY BlocksFinite
<1>2. PICK k \in D : \A j \in D : k =< j
  <2>1. D \in SUBSET Nat
    OBVIOUS
  <2> HIDE DEF D
  <2> QED BY <2>1, Least
<1>3. k \in Nat /\ k < K /\ \A p \in B : Place(B, p) # k
  OBVIOUS
<1>4. FirstBlock \in B
  <2>1. B # {}
    BY <1>1, <1>3, FS_EmptySet
  <2>2. FirstBlock # b
    <3>1. PICK p \in B : TRUE
      BY <2>1
    <3>2. p \in Int /\ z[p] \in Nat /\ z[p] >= 24 /\ p + z[p] =< b /\ b \in Int
      BY Cells
    <3>3. FirstBlock =< p /\ FirstBlock \in Int
      BY Layout DEF Shape
    <3> QED BY <3>2, <3>3
  <2> QED BY <2>2 DEF Shape
<1>5. k # 0
  BY <1>3, <1>4, PlacesCount
<1>6. k - 1 \in Nat /\ k - 1 < K /\ ~(k =< k - 1)
  BY <1>1, <1>3, <1>5
<1>7. PICK p \in B : Place(B, p) = k - 1
  BY <1>2, <1>6
<1>8. Place(B, p + z[p]) = k
  <2>1. Place(B, p + z[p]) = Place(B, p) + 1
    BY PlacesCount
  <2> QED BY <1>3, <1>7, <2>1
<1>9. p + z[p] = b
  BY <1>3, <1>8 DEF Shape
<1>10. Place(B, b) = K
  BY PlacesCount
<1> QED BY <1>1, <1>3, <1>8, <1>9, <1>10

\* There is room for no more than MaxBlocks of them.
LEMMA PlacesFit ==
  ASSUME NEW B, NEW z, NEW b, Shape(B, z, b)
  PROVE  MaxBlocks \in Nat /\ Cardinality(B) =< MaxBlocks
<1>1. MaxBlocks = MaxHeap \div 16 /\ MaxBlocks \in Nat /\ MaxHeap \in Nat /\ FirstBlock \in Nat
  BY Layout DEF MaxBlocks, META_SIZE, WORD_SIZE
<1> DEFINE D == {p \in B \cup {b} : ~(16 * Place(B, p) + FirstBlock =< p)}
<1>2. D = {}
  <2> SUFFICES ASSUME D # {} PROVE FALSE
    OBVIOUS
  <2>1. D \in SUBSET Nat
    <3>1. ASSUME NEW p \in B \cup {b} PROVE p \in Int /\ FirstBlock =< p
      BY DEF Shape
    <3> QED BY <1>1, <3>1
  <2>2. PICK p \in D : \A q \in D : p =< q
    <3> HIDE DEF D
    <3> QED BY <2>1, Least
  <2>3. p \in B \cup {b} /\ ~(16 * Place(B, p) + FirstBlock =< p) /\ p \in Nat
    BY <2>1
  <2>4. CASE p = FirstBlock
    <3>1. Place(B, p) = 0
      BY <2>4, PlacesCount
    <3> QED BY <1>1, <2>3, <2>4, <3>1
  <2>5. CASE p # FirstBlock
    <3>1. PICK q \in B : p = q + z[q]
      BY <2>3, <2>5 DEF Shape
    <3>2. q \in Int /\ z[q] \in Nat /\ z[q] >= 24
      BY Cells
    <3>3. q \notin D
      <4>1. ~(p =< q)
        BY <3>1, <3>2
      <4> QED BY <2>2, <4>1
    <3>4. PICK k \in Nat : k = Place(B, q)
      BY PlacesCount
    <3>5. 16 * k + FirstBlock =< q
      BY <3>3, <3>4
    <3>6. Place(B, p) = k + 1
      BY <3>1, <3>4, PlacesCount
    <3>7. 16 * (k + 1) + FirstBlock =< p
      BY <1>1, <3>1, <3>2, <3>4, <3>5
    <3> QED BY <2>3, <3>6, <3>7
  <2> QED BY <2>4, <2>5
<1>3. PICK K \in Nat : K = Cardinality(B)
  BY BlocksFinite
<1>4. 16 * K + FirstBlock =< b
  <2>1. Place(B, b) = K
    BY <1>3, PlacesCount
  <2>2. b \notin D
    BY <1>2
  <2> QED BY <2>1, <2>2
<1>5. b \in Int /\ b =< MaxHeap
  BY DEF Shape
<1>6. 16 * K =< MaxHeap
  BY <1>1, <1>4, <1>5
<1>7. K =< MaxHeap \div 16
  BY <1>1, <1>6
<1> QED BY <1>1, <1>3, <1>7

\* Following HEAP_NEXT from the first block meets every block of the heap.
LEMMA BlocksAre ==
  ASSUME NEW B, NEW z, NEW U, NEW F, HeapAt(mem, B, z, brk, U, F, B)
  PROVE  Blocks = B
<1> DEFINE M == MaxBlocks
           K == Cardinality(B)
           Next1(p) == IF p = brk \/ SIZE(mem, p) = 0 \/ HEAP_NEXT(mem, p) > brk THEN p ELSE HEAP_NEXT(mem, p)
           P(g) == g = [n \in 0..M |->
             IF n = 0 THEN FirstBlock
             ELSE LET p == g[n - 1]
                  IN  IF p = brk \/ SIZE(mem, p) = 0 \/ HEAP_NEXT(mem, p) > brk THEN p ELSE HEAP_NEXT(mem, p)]
           f == [n \in 0..M |-> IF n < K THEN CHOOSE p \in B : Place(B, p) = n ELSE brk]
<1>1. Shape(B, z, brk) /\ brk \in Int
  BY DEF HeapAt, Shape
<1>2. K \in Nat /\ M \in Nat /\ K =< M
  BY <1>1, BlocksFinite, PlacesFit
<1>3. ASSUME NEW p \in B
      PROVE  p # brk /\ SIZE(mem, p) = z[p] /\ HEAP_NEXT(mem, p) = p + z[p] /\ z[p] # 0
             /\ ~(p + z[p] > brk) /\ Place(B, p) \in Nat
  <2>1. p \in Int /\ z[p] \in Nat /\ z[p] >= 24 /\ p + z[p] =< brk
    BY <1>1, Cells
  <2>2. SIZE(mem, p) = z[p] /\ HEAP_NEXT(mem, p) = p + z[p]
    BY SizesAre, NextIs
  <2>3. Place(B, p) \in Nat
    BY <1>1, PlacesCount
  <2> QED BY <1>1, <2>1, <2>2, <2>3
<1>4. ASSUME NEW n \in 0..M
      PROVE  /\ n < K => f[n] \in B /\ Place(B, f[n]) = n
             /\ ~(n < K) => f[n] = brk
  <2>1. ASSUME n < K PROVE f[n] \in B /\ Place(B, f[n]) = n
    <3>1. \E p \in B : Place(B, p) = n
      BY <1>1, <2>1, EveryPlace
    <3>2. f[n] = CHOOSE p \in B : Place(B, p) = n
      BY <2>1
    <3> QED BY <3>1, <3>2
  <2>2. ~(n < K) => f[n] = brk
    OBVIOUS
  <2> QED BY <2>1, <2>2
<1>4a. \A n \in 0..M : n < K => f[n] \in B /\ Place(B, f[n]) = n
  BY <1>4
<1>4b. \A n \in 0..M : ~(n < K) => f[n] = brk
  BY <1>4
<1> HIDE DEF M, K
<1>5. f[0] = FirstBlock
  <2> HIDE DEF f
  <2>1. 0 \in 0..M
    BY <1>2
  <2>2. FirstBlock \in B \cup {brk} /\ Place(B, FirstBlock) = 0 /\ Place(B, brk) = K
    BY <1>1, PlacesCount DEF Shape, K
  <2>3. CASE K = 0
    <3>1. FirstBlock \notin B
      BY <1>1, <2>2, <2>3, PlacesCount DEF K
    <3> QED BY <1>4b, <2>1, <2>2, <2>3, <3>1
  <2>4. CASE K # 0
    <3>1. FirstBlock \in B
      BY <2>2, <2>4
    <3>2. f[0] \in B /\ Place(B, f[0]) = 0
      BY <1>2, <1>4a, <2>1, <2>4
    <3> QED BY <1>1, <2>2, <3>1, <3>2, PlacesDiffer
  <2> QED BY <2>3, <2>4
<1>6. ASSUME NEW n \in 0..M, n # 0 PROVE f[n] = Next1(f[n - 1])
  <2> HIDE DEF f
  <2>1. n - 1 \in 0..M /\ n \in Nat /\ (n - 1) + 1 = n
    BY <1>2, <1>6
  <2>2. CASE n - 1 < K
    <3>1. PICK p \in B : p = f[n - 1] /\ Place(B, p) = n - 1
      BY <1>4a, <2>1, <2>2
    <3>2. Next1(p) = p + z[p]
      BY <1>3
    <3>3. Place(B, p + z[p]) = n /\ p + z[p] \in B \cup {brk}
      <4>1. Place(B, p + z[p]) = Place(B, p) + 1
        BY <1>1, PlacesCount
      <4>2. p + z[p] \in B \cup {brk}
        BY <1>1 DEF Shape
      <4> QED BY <2>1, <3>1, <4>1, <4>2
    <3>4. CASE n < K
      <4>1. f[n] \in B /\ Place(B, f[n]) = n
        BY <1>4a, <3>4
      <4>2. Place(B, brk) = K
        BY <1>1, PlacesCount DEF K
      <4>3. p + z[p] \in B
        BY <1>2, <2>1, <3>3, <3>4, <4>2
      <4>4. f[n] = p + z[p]
        BY <1>1, <3>3, <4>1, <4>3, PlacesDiffer
      <4> QED BY <3>1, <3>2, <4>4
    <3>5. CASE ~(n < K)
      <4>1. n = K /\ f[n] = brk
        BY <1>2, <1>4b, <2>1, <2>2, <3>5
      <4>2. p + z[p] \notin B
        BY <1>1, <1>2, <3>3, <3>5, PlacesCount DEF K
      <4> QED BY <3>1, <3>2, <3>3, <4>1, <4>2
    <3> QED BY <3>4, <3>5
  <2>3. CASE ~(n - 1 < K)
    <3>1. ~(n < K)
      BY <1>2, <2>1, <2>3
    <3>2. f[n - 1] = brk /\ f[n] = brk
      BY <1>4b, <2>1, <2>3, <3>1
    <3> QED BY <3>2
  <2> QED BY <2>2, <2>3
<1>7. P(f)
  <2>1. f = [n \in 0..M |-> f[n]]
    OBVIOUS
  <2> HIDE DEF f
  <2>2. \A n \in 0..M : f[n] = IF n = 0 THEN FirstBlock ELSE Next1(f[n - 1])
    <3> HIDE DEF Next1
    <3> QED BY <1>5, <1>6
  <2> QED BY <2>1, <2>2
<1>8. Blocks = LET block == CHOOSE g : P(g) IN {block[n] : n \in 0..M} \ {brk}
  BY Zenon DEF Blocks, M
<1> DEFINE g == CHOOSE h : P(h)
<1>9. P(g)
  <2> HIDE DEF P, f
  <2> QED BY <1>7
<1>10. \A n \in 0..M : g[n] = IF n = 0 THEN FirstBlock ELSE Next1(g[n - 1])
  <2> HIDE DEF g
  <2> QED BY <1>9
<1> HIDE DEF P, g, Next1
<1>11. \A n \in 0..M : g[n] = f[n]
  <2> DEFINE D == {k \in 0..M : g[k] # f[k]}
  <2> SUFFICES ASSUME D # {} PROVE FALSE
    OBVIOUS
  <2> HIDE DEF f
  <2>1. D \in SUBSET Nat
    OBVIOUS
  <2>2. PICK k \in D : \A j \in D : k =< j
    <3> HIDE DEF D
    <3> QED BY <2>1, Least
  <2>3. k \in 0..M /\ g[k] # f[k]
    OBVIOUS
  <2>4. k # 0 => k - 1 \in 0..M /\ k - 1 \notin D
    <3>1. k \in Nat /\ ~(k =< k - 1) /\ (k # 0 => k - 1 \in 0..M)
      BY <1>2, <2>3
    <3> QED BY <2>2, <3>1
  <2>5. k # 0 => g[k - 1] = f[k - 1]
    BY <2>4
  <2> QED BY <1>5, <1>6, <1>10, <2>3, <2>5
<1> HIDE DEF f
<1>12. Blocks = {g[n] : n \in 0..M} \ {brk}
  BY <1>8, Zenon DEF g
<1>13. ASSUME NEW p \in B PROVE p \in Blocks
  <2>1. PICK n \in Nat : n = Place(B, p) /\ n < K
    BY <1>1, <1>3, PlacesCount DEF K
  <2>2. n \in 0..M
    BY <1>2, <2>1
  <2>3. f[n] = p
    BY <1>1, <1>4a, <2>1, <2>2, PlacesDiffer
  <2> QED BY <1>3, <1>11, <1>12, <2>2, <2>3
<1>14. ASSUME NEW p \in Blocks PROVE p \in B
  <2>1. PICK n \in 0..M : p = f[n] /\ p # brk
    BY <1>11, <1>12
  <2> QED BY <1>4a, <1>4b, <2>1
<1> QED BY <1>13, <1>14

-----------------------------------------------------------------------------
(* The properties.                                                         *)

\* The heap as the properties see it, through SIZE, STAT and HEAP_NEXT.
LEMMA FreeAre ==
  ASSUME NEW B, NEW z, NEW U, Tidy(mem, B, z, brk, U)
  PROVE  /\ Blocks = B /\ FreeBlocks = B \ U
         /\ \A p \in B : SIZE(mem, p) = z[p] /\ STAT(mem, p) = IF p \in U THEN USED ELSE UNUSED
<1> DEFINE F == B \ U
<1>1. HeapAt(mem, B, z, brk, U, F, B)
  BY DEF Tidy
<1> HIDE DEF F
<1>2. Blocks = B
  BY <1>1, BlocksAre
<1>3. \A p \in B : SIZE(mem, p) = z[p] /\ STAT(mem, p) = IF p \in U THEN USED ELSE UNUSED
  BY <1>1, SizesAre
<1>4. FreeBlocks = B \ U
  BY <1>2, <1>3 DEF FreeBlocks, USED, UNUSED
<1> QED BY <1>2, <1>3, <1>4

\* The tiling, the epilogue and the footers follow from the invariant.
LEMMA TilesHold == HeapInv => HeapTiles
<1> SUFFICES ASSUME HeapInv PROVE HeapTiles
  OBVIOUS
<1>1. PICK B, z : Tidy(mem, B, z, brk, DOMAIN owned) /\ Served(mem, z, owned)
  BY DEF HeapInv, Client
<1> DEFINE U == DOMAIN owned
           F == B \ U
<1>2. HeapAt(mem, B, z, brk, U, F, B) /\ Shape(B, z, brk) /\ U \subseteq B /\ Bordered(mem, brk)
  BY <1>1 DEF Tidy, HeapAt
<1>3. TypeOK
  <2>1. mem \in [Words -> Tags \cup Nat]
    BY <1>2 DEF HeapAt, Val
  <2>2. brk \in FirstBlock..MaxHeap /\ brk % 8 = 0
    BY <1>2, Layout DEF Shape
  <2>3. ASSUME NEW p \in DOMAIN owned PROVE p % 8 = 0 /\ owned[p].kept <= owned[p].size
    <3>1. p % 8 = 0
      BY <1>2 DEF Shape
    <3>2. Record(owned[p])
      BY <1>1 DEF Served, Serves
    <3> QED BY <3>1, <3>2 DEF Record
  <2>4. crashed \in BOOLEAN
    BY DEF HeapInv
  <2> QED BY <2>1, <2>2, <2>3, <2>4 DEF TypeOK
<1>4. STAT(mem, brk) = BORDER
  BY <1>2, BorderIs
<1>5. Blocks = B /\ \A p \in B : /\ SIZE(mem, p) = z[p]
                                 /\ STAT(mem, p) = IF p \in U THEN USED ELSE UNUSED
  BY <1>1, FreeAre
<1>6. ASSUME NEW p \in B
      PROVE  /\ HEAP_NEXT(mem, p) \in B \cup {brk}
             /\ SIZE(mem, p) > META_SIZE
             /\ STAT(mem, p) \in {USED, UNUSED}
             /\ mem[FTR_PTR(mem, p)] = mem[HDR_PTR(p)]
  <2>1. /\ p + z[p] \in B \cup {brk} /\ z[p] > 16
    BY <1>2 DEF Shape
  <2>2. mem[p - 8] = mem[p + z[p] - 16]
    BY <1>2 DEF HeapAt, Headed
  <2>3. HEAP_NEXT(mem, p) = p + SIZE(mem, p) /\ FTR_PTR(mem, p) = p + SIZE(mem, p) - 16 /\ HDR_PTR(p) = p - 8
    BY Reads
  <2>4. META_SIZE = 16
    BY DEF META_SIZE, WORD_SIZE
  <2> QED BY <1>5, <2>1, <2>2, <2>3, <2>4
<1> QED BY <1>3, <1>4, <1>5, <1>6 DEF HeapTiles

\* The client's bytes are in its blocks.
LEMMA DataHold == HeapInv => DataKept
BY DEF HeapInv, Client, Served, Serves, DataKept

\* The used blocks are the client's.
LEMMA UsedHold == HeapInv => UsedAreOwned
<1> SUFFICES ASSUME HeapInv PROVE UsedAreOwned
  OBVIOUS
<1>1. PICK B, z : Tidy(mem, B, z, brk, DOMAIN owned) /\ Served(mem, z, owned)
  BY DEF HeapInv, Client
<1> DEFINE U == DOMAIN owned
<1>2. U \subseteq B
  BY <1>1 DEF Tidy, HeapAt
<1>3. Blocks = B /\ \A p \in B : /\ SIZE(mem, p) = z[p]
                                 /\ STAT(mem, p) = IF p \in U THEN USED ELSE UNUSED
  BY <1>1, FreeAre
<1>4. {p \in Blocks : STAT(mem, p) = USED} = U
  BY <1>2, <1>3 DEF USED, UNUSED
<1>5. ASSUME NEW p \in U PROVE SIZE(mem, p) >= owned[p].size + META_SIZE
  <2>1. z[p] >= owned[p].size + 16
    BY <1>1 DEF Served, Serves
  <2> QED BY <1>2, <1>3, <2>1 DEF META_SIZE, WORD_SIZE
<1> QED BY <1>4, <1>5, DataHold DEF UsedAreOwned

\* The lists find_fit walks are the free blocks, rank by rank.
LEMMA ListsHold == HeapInv => FreeBlocksListed
<1> SUFFICES ASSUME HeapInv PROVE FreeBlocksListed
  OBVIOUS
<1>1. PICK B, z : Tidy(mem, B, z, brk, DOMAIN owned)
  BY DEF HeapInv, Client
<1> DEFINE U == DOMAIN owned
           F == B \ U
<1>2. /\ HeapAt(mem, B, z, brk, U, F, B) /\ NoPair(B, z, U) /\ Shape(B, z, brk)
      /\ Listing(mem, B, z, F) /\ F \subseteq B
  BY <1>1 DEF Tidy, HeapAt
<1>3. Blocks = B /\ FreeBlocks = F /\ \A p \in B : SIZE(mem, p) = z[p]
  BY <1>1, FreeAre
<1>4. ASSUME NEW p \in FreeBlocks PROVE HEAP_NEXT(mem, p) \notin FreeBlocks
  <2>1. HEAP_NEXT(mem, p) = p + z[p]
    BY <1>3, Reads
  <2> QED BY <1>2, <1>3, <2>1 DEF NoPair
<1> HIDE DEF F
<1>5. ASSUME NEW rank \in 0..(RANK_NUM - 1)
      PROVE  /\ Entries(mem, rank)[MaxBlocks] = BDR_OFF
             /\ Listed(rank) = {p \in FreeBlocks : get_rank(SIZE(mem, p)) = rank}
             /\ \A p \in Listed(rank) :
                  IF LIST(mem, rank) = p
                  THEN LIST_PREV(mem, p) = BDR_OFF
                  ELSE LIST_NEXT(mem, LIST_PREV(mem, p)) = p
  <2> DEFINE S == Entry(z, F, rank)
             L == View(mem, B, z)
  <2>1. rank \in Ranks
    BY DEF Ranks
  <2>2. Linked(L, B, rank, S)
    BY <1>2, <2>1 DEF Listing
  <2>3. S \subseteq B /\ Joined(L, B, rank, S)
    BY <1>2, <2>2 DEF Entry, Linked
  <2>4. PICK N, s : InLine(L, rank, S, N, s)
    BY <2>2 DEF Linked
  <2>5. \A n \in 0..MaxBlocks : Entries(mem, rank)[n] = IF n < N THEN s[n + 1] ELSE BDR_OFF
    BY <1>2, <2>1, <2>4, EntriesAre
  <2>6. N \in Nat /\ MaxBlocks \in Nat /\ N =< MaxBlocks
    <3> HIDE DEF S, L
    <3> QED BY <1>2, <2>3, <2>4, LineFits
  <2>7. s \in [1..N -> S] /\ \A x \in S : \E i \in 1..N : s[i] = x
    BY <2>4 DEF InLine
  <2>8. Entries(mem, rank)[MaxBlocks] = BDR_OFF
    BY <2>5, <2>6
  <2>9. \A p \in S : p # BDR_OFF
    BY <1>2, <2>3, Cells
  <2> HIDE DEF S, L
  <2>10. Listed(rank) = S
    <3>1. ASSUME NEW p \in Listed(rank) PROVE p \in S
      <4>1. PICK n \in 0..MaxBlocks : p = Entries(mem, rank)[n] /\ p # BDR_OFF
        BY DEF Listed
      <4>2. n < N /\ p = s[n + 1]
        BY <2>5, <4>1
      <4>3. n + 1 \in 1..N
        BY <2>6, <4>2
      <4> QED BY <2>7, <4>2, <4>3
    <3>2. ASSUME NEW p \in S PROVE p \in Listed(rank)
      <4>1. PICK i \in 1..N : s[i] = p
        BY <2>7
      <4>2. i - 1 \in 0..MaxBlocks /\ i - 1 < N /\ (i - 1) + 1 = i
        BY <2>6
      <4>3. Entries(mem, rank)[i - 1] = p
        BY <2>5, <4>1, <4>2
      <4> QED BY <2>9, <4>2, <4>3 DEF Listed
    <3> QED BY <3>1, <3>2
  <2>11. {p \in FreeBlocks : get_rank(SIZE(mem, p)) = rank} = S
    BY <1>2, <1>3 DEF S, Entry
  <2>12. /\ LIST(mem, rank) = L.bucket[rank]
         /\ \A p \in B : LIST_PREV(mem, p) = L.prev[p] /\ LIST_NEXT(mem, p) = L.next[p]
    <3>1. LIST(mem, rank) = mem[BUCK(rank)]
      BY DEF LIST
    <3>2. \A p \in B : LIST_PREV(mem, p) = mem[p + z[p] - 12] /\ LIST_NEXT(mem, p) = mem[p - 4]
      BY <1>3, Reads
    <3> QED BY <2>1, <3>1, <3>2 DEF L, View
  <2>13. ASSUME NEW p \in S
         PROVE  IF LIST(mem, rank) = p
                THEN LIST_PREV(mem, p) = BDR_OFF
                ELSE LIST_NEXT(mem, LIST_PREV(mem, p)) = p
    <3>1. p \in B /\ p # BDR_OFF /\ L.prev[p] \in S \cup {BDR_OFF}
      BY <2>3, <2>9 DEF Joined
    <3>2. CASE L.bucket[rank] = p
      BY <2>3, <2>12, <3>1, <3>2 DEF Joined
    <3>3. CASE L.bucket[rank] # p
      <4>1. L.prev[p] # BDR_OFF /\ L.next[L.prev[p]] = p
        BY <2>3, <3>3 DEF Joined
      <4>2. L.prev[p] \in B
        BY <2>3, <3>1, <4>1
      <4> QED BY <2>12, <3>1, <3>3, <4>1, <4>2
    <3> QED BY <3>2, <3>3
  <2> QED BY <2>8, <2>10, <2>11, <2>13
<1> QED BY <1>4, <1>5 DEF FreeBlocksListed

\* Any order of calls leaves blocks that tile the heap, each with a footer that repeats its
\* header: free can trust HEAP_NEXT and HEAP_PREV.
THEOREM HeapTilesHold == Spec => []HeapTiles
BY HeapInvariant, TilesHold, PTL

\* No block is lost or handed out twice by split, coalesce or realloc, each is as large as
\* was asked, and no call writes in it: its bytes stay where they are or move along.
THEOREM UsedAreOwnedHold == Spec => []UsedAreOwned
BY HeapInvariant, UsedHold, PTL

\* list_remove always finds the block in the list of the rank its caller gives, no free
\* block is missing from its list, and free leaves no two free neighbours.
THEOREM FreeBlocksListedHold == Spec => []FreeBlocksListed
BY HeapInvariant, ListsHold, PTL

\* malloc and realloc ask mem_sbrk for memory only when no free block would do, and for no
\* more than the request needs.
THEOREM GrowsWhenFullHolds == Spec => GrowsWhenFull
<1> DEFINE A == /\ brk' > brk => \A p \in FreeBlocks : SIZE(mem, p) < brk' - brk
                /\ crashed' => \E n \in Requests :
                     /\ brk + ALIGN(n + META_SIZE) > MaxHeap
                     /\ \A p \in FreeBlocks : SIZE(mem, p) < ALIGN(n + META_SIZE)
<1>1. HeapInv /\ Next => A
  <2> SUFFICES ASSUME HeapInv, Next PROVE A
    OBVIOUS
  <2>1. PICK B, z : Tidy(mem, B, z, brk, DOMAIN owned) /\ Served(mem, z, owned)
    BY DEF HeapInv, Client
  <2>2. Sparing(B, z, DOMAIN owned, brk, brk', crashed')
    BY <2>1, StepAdvances DEF Advances
  <2>3. FreeBlocks = B \ DOMAIN owned /\ \A p \in B : SIZE(mem, p) = z[p]
    BY <2>1, FreeAre
  <2> QED BY <2>2, <2>3 DEF Sparing, Full
<1>2. HeapInv /\ [Next]_vars => [A]_vars
  BY <1>1
<1> QED BY <1>2, HeapInvariant, PTL DEF Spec, GrowsWhenFull
-----------------------------------------------------------------------------
(* The allocator implements HeapAbs.                                        *)

\* Two blocks of the client do not overlap, and all lie below the break.
LEMMA ClientApart ==
  ASSUME NEW m, NEW b, NEW o, Client(m, b, o), NEW p \in DOMAIN o
  PROVE  /\ p \in Int /\ p % 8 = 0 /\ FirstBlock =< p /\ p + o[p].size =< b
         /\ o[p].size \in Nat /\ b \in Int /\ b =< MaxHeap
         /\ \A q \in DOMAIN o : q # p => p + o[p].size =< q \/ q + o[q].size =< p
<1>1. PICK B, z : Tidy(m, B, z, b, DOMAIN o) /\ Served(m, z, o)
  BY DEF Client
<1>2. Shape(B, z, b) /\ DOMAIN o \subseteq B
  BY <1>1 DEF Tidy, HeapAt
<1>3. b \in Int /\ b =< MaxHeap
  BY <1>2 DEF Shape
<1>4. ASSUME NEW q \in DOMAIN o
      PROVE  /\ q \in Int /\ q % 8 = 0 /\ FirstBlock =< q /\ o[q].size \in Nat
             /\ z[q] \in Nat /\ q + z[q] =< b /\ z[q] >= o[q].size + 16
  <2>1. q \in B
    BY <1>2
  <2>2. q \in Int /\ z[q] \in Nat /\ q + z[q] =< b
    BY <1>2, <2>1, Cells
  <2>3. q % 8 = 0 /\ FirstBlock =< q
    BY <1>2, <2>1 DEF Shape
  <2>4. o[q].size \in Nat /\ z[q] >= o[q].size + 16
    BY <1>1 DEF Served, Serves, Record
  <2> QED BY <2>2, <2>3, <2>4
<1>5. ASSUME NEW q \in DOMAIN o, q # p
      PROVE  p + o[p].size =< q \/ q + o[q].size =< p
  <2>1. p \in B /\ q \in B
    BY <1>2
  <2>2. p < q => p + z[p] =< q
    BY <1>2, <2>1 DEF Shape
  <2>3. q < p => q + z[q] =< p
    BY <1>2, <2>1 DEF Shape
  <2>4. /\ p \in Int /\ q \in Int /\ z[p] \in Nat /\ z[q] \in Nat
        /\ o[p].size \in Nat /\ o[q].size \in Nat
        /\ z[p] >= o[p].size + 16 /\ z[q] >= o[q].size + 16
    BY <1>4
  <2>5. p < q \/ q < p
    BY <1>5, <2>4
  <2> QED BY <2>2, <2>3, <2>4, <2>5
<1>6. p + o[p].size =< b
  BY <1>3, <1>4
<1> QED BY <1>3, <1>4, <1>5, <1>6

\* The client reads in each block the tag it wrote there.
LEMMA ContentsAre ==
  ASSUME NEW m, NEW b, NEW o, Client(m, b, o)
  PROVE  Contents(m, o) = [p \in DOMAIN o |-> [d \in Span(0, o[p].kept) |-> o[p].tag]]
<1>1. PICK B, z : Tidy(m, B, z, b, DOMAIN o) /\ Served(m, z, o)
  BY DEF Client
<1>2. ASSUME NEW p \in DOMAIN o, NEW d \in Span(0, o[p].kept)
      PROVE  m[p + d] = o[p].tag
  <2>1. p \in Int /\ p % 8 = 0 /\ FirstBlock =< p /\ p + o[p].size =< b /\ b \in Int /\ b =< MaxHeap
        /\ o[p].size \in Nat
    BY ClientApart
  <2>2. o[p].kept \in Nat /\ o[p].kept =< o[p].size
    BY <1>1 DEF Served, Serves, Record
  <2>3. PICK k \in Nat, s \in Nat : k = o[p].kept /\ s = o[p].size
    BY <2>1, <2>2
  <2>4. FirstBlock \in Nat /\ MaxHeap \in Nat
    BY Layout
  <2>5. d \in Nat /\ d % 4 = 0 /\ d < k
    BY <2>3, <2>4 DEF Span, Words, WORD_SIZE
  <2>6. p + d < MaxHeap /\ p =< p + d /\ p + d < p + k /\ p + d \in Nat
    <3>1. k =< s /\ p + s =< b
      BY <2>1, <2>2, <2>3
    <3> QED BY <2>1, <2>4, <2>5, <3>1
  <2>7. p + d \in Span(p, o[p].kept)
    <3>1. (p + d) % 4 = 0
      <4>1. p \in Int /\ d \in Int /\ p % 4 = 0 /\ d % 4 = 0
        BY <2>1, <2>5
      <4> QED BY <4>1
    <3> QED BY <2>3, <2>4, <2>6, <3>1 DEF Span, Words, WORD_SIZE
  <2> QED BY <1>1, <2>7 DEF Served, Serves
<1> QED BY <1>2 DEF Contents

\* What the refinement maps the state after a call to.
LEMMA AfterIs ==
  /\ Sizes(owned)' = Sizes(owned')
  /\ Contents(mem, owned)' = Contents(mem', owned')
BY DEF Sizes, Contents

\* A step after which the client has one more block than it keeps settles that block
\* apart from the others.
LEMMA ComesSettles ==
  ASSUME HeapInv, Client(mem', brk', owned'),
         NEW S, S \subseteq DOMAIN owned, NEW q, NEW n \in Nat, NEW v, NEW k,
         Comes(S, q, n, v, k)
  PROVE  /\ q \in Abs!Pointers
         /\ Abs!Settle(S, q, n)
         /\ Abs!Hold(S, q, [d \in Span(0, k) |-> v])
<1>1. /\ DOMAIN owned' = S \cup {q} /\ q \notin S
      /\ owned'[q].size = n /\ owned'[q].tag = v /\ owned'[q].kept = k
      /\ \A t \in S : owned'[t] = owned[t]
  BY DEF Comes
<1>2. /\ q \in Int /\ q % 8 = 0 /\ FirstBlock =< q /\ q + n =< brk' /\ brk' \in Int /\ brk' =< MaxHeap
      /\ \A t \in S : q + n =< t \/ t + owned[t].size =< q
  <2>1. q \in DOMAIN owned'
    BY <1>1
  <2>2. /\ q \in Int /\ q % 8 = 0 /\ FirstBlock =< q /\ q + owned'[q].size =< brk'
        /\ brk' \in Int /\ brk' =< MaxHeap
        /\ \A t \in DOMAIN owned' : t # q => q + owned'[q].size =< t \/ t + owned'[t].size =< q
    BY <2>1, ClientApart
  <2> QED BY <1>1, <2>2
<1>3. q \in Abs!Pointers
  <2>1. FirstBlock \in Nat /\ FirstBlock > 0 /\ MaxHeap \in Nat
    BY Layout
  <2>2. PICK j \in Int : q = 8 * j
    BY <1>2
  <2>3. j \in 1 .. (MaxHeap \div 8)
    BY <1>2, <2>1, <2>2
  <2> QED BY <2>2, <2>3 DEF Abs!Pointers
<1>4. \A t \in S : Sizes(owned)[t] = owned[t].size
  BY DEF Sizes
<1>5. Sizes(owned') = [t \in S \cup {q} |-> IF t = q THEN n ELSE Sizes(owned)[t]]
  BY <1>1, <1>4 DEF Sizes
<1>6. Abs!Settle(S, q, n)
  BY <1>2, <1>4, <1>5, AfterIs DEF Abs!Settle, Abs!Apart
<1>7. Contents(mem', owned') = [t \in S \cup {q} |-> IF t = q THEN [d \in Span(0, k) |-> v] ELSE Contents(mem, owned)[t]]
  <2>1. Contents(mem', owned') = [t \in DOMAIN owned' |-> [d \in Span(0, owned'[t].kept) |-> owned'[t].tag]]
    BY ContentsAre
  <2>2. Contents(mem, owned) = [t \in DOMAIN owned |-> [d \in Span(0, owned[t].kept) |-> owned[t].tag]]
    BY ContentsAre DEF HeapInv
  <2>3. ASSUME NEW t \in S
        PROVE  [d \in Span(0, owned'[t].kept) |-> owned'[t].tag] = Contents(mem, owned)[t]
    BY <1>1, <2>2
  <2> QED BY <1>1, <2>1, <2>3
<1>8. Abs!Hold(S, q, [d \in Span(0, k) |-> v])
  BY <1>7, AfterIs DEF Abs!Hold
<1> QED BY <1>3, <1>6, <1>8

\* A call that leaves the client's blocks as they were is nothing to it.
LEMMA SameContents ==
  ASSUME HeapInv, Client(mem', brk', owned'), NEW S, S \subseteq DOMAIN owned,
         DOMAIN owned' = S, \A t \in S : owned'[t] = owned[t]
  PROVE  /\ Sizes(owned)' = [t \in S |-> Sizes(owned)[t]]
         /\ Contents(mem, owned)' = [t \in S |-> Contents(mem, owned)[t]]
<1>1. Contents(mem', owned') = [t \in DOMAIN owned' |-> [d \in Span(0, owned'[t].kept) |-> owned'[t].tag]]
  BY ContentsAre
<1>2. Contents(mem, owned) = [t \in DOMAIN owned |-> [d \in Span(0, owned[t].kept) |-> owned[t].tag]]
  BY ContentsAre DEF HeapInv
<1>3. Sizes(owned') = [t \in S |-> Sizes(owned)[t]]
  BY DEF Sizes
<1>4. Contents(mem', owned') = [t \in S |-> Contents(mem, owned)[t]]
  BY <1>1, <1>2
<1> QED BY <1>3, <1>4, AfterIs

\* A block of fewer bytes holds fewer words.
LEMMA KeptIs ==
  ASSUME HeapInv, NEW t \in DOMAIN owned, NEW n \in Nat
  PROVE  Abs!Kept(t, n) = [d \in Span(0, Min({n, owned[t].kept})) |-> owned[t].tag]
<1> DEFINE k == Min({n, owned[t].kept})
<1>1. Contents(mem, owned) = [p \in DOMAIN owned |-> [d \in Span(0, owned[p].kept) |-> owned[p].tag]]
  BY ContentsAre DEF HeapInv
<1>2. owned[t].kept \in Nat
  BY DEF HeapInv, Client, Served, Serves, Record
<1>3. k \in Nat /\ k \in {n, owned[t].kept} /\ k =< n /\ k =< owned[t].kept
  BY <1>2, MinTwo
<1> HIDE DEF k
<1>4. Span(0, owned[t].kept) \cap {d \in Words : d < n} = Span(0, k)
  <2>1. Words \subseteq Nat
    BY Layout DEF Words
  <2>2. PICK j \in Nat : j = owned[t].kept
    BY <1>2
  <2>3. \A d \in Words : d >= 0 /\ (d < 0 + j /\ d < n <=> d < 0 + k)
    BY <1>3, <2>1, <2>2
  <2> QED BY <2>2, <2>3 DEF Span
<1>5. /\ DOMAIN Contents(mem, owned)[t] = Span(0, owned[t].kept)
      /\ \A d \in Span(0, owned[t].kept) : Contents(mem, owned)[t][d] = owned[t].tag
  BY <1>1
<1>6. Abs!Kept(t, n) = [d \in Span(0, k) |-> owned[t].tag]
  BY <1>4, <1>5 DEF Abs!Kept, Abs!Offsets
<1> QED BY <1>6 DEF k

\* The heap grows by no more than the request and what a block takes besides.
LEMMA WidensGrows ==
  ASSUME NEW n \in Nat, brk \in Int, Widens(n)
  PROVE  Abs!Grow(n)
<1>1. META_SIZE = 16 /\ n + META_SIZE \in Nat
  BY DEF META_SIZE, WORD_SIZE
<1>2. ALIGN(n + META_SIZE) \in Nat /\ ALIGN(n + META_SIZE) < n + META_SIZE + 8
  BY <1>1, AlignIs
<1> QED BY <1>1, <1>2 DEF Widens, Abs!Grow

\* Whatever a call comes to for the client is a step of HeapAbs, or none.
LEMMA OutcomeRefines ==
  ASSUME HeapInv, ~crashed, Client(mem', brk', owned'), Outcome
  PROVE  Abs!Next \/ UNCHANGED Abs!absVars
<1>0. crashed = FALSE /\ brk \in Int /\ Requests \subseteq Nat
  BY HeapAssumption DEF HeapInv, Client, Tidy, HeapAt, Shape
<1>1. Abs!Held = DOMAIN owned /\ DOMAIN Sizes(owned) = DOMAIN owned /\ DOMAIN Contents(mem, owned) = DOMAIN owned
      /\ Sizes(owned) = [t \in DOMAIN owned |-> Sizes(owned)[t]]
      /\ Contents(mem, owned) = [t \in DOMAIN owned |-> Contents(mem, owned)[t]]
  BY DEF Abs!Held, Sizes, Contents
<1>2. CASE /\ DOMAIN owned' = DOMAIN owned /\ \A t \in DOMAIN owned : owned'[t] = owned[t]
           /\ brk' = brk /\ crashed' = FALSE
  <2>1. /\ Sizes(owned)' = [t \in DOMAIN owned |-> Sizes(owned)[t]]
        /\ Contents(mem, owned)' = [t \in DOMAIN owned |-> Contents(mem, owned)[t]]
    BY <1>2, SameContents
  <2>2. UNCHANGED <<Sizes(owned), Contents(mem, owned), brk, crashed>>
    BY <1>0, <1>1, <1>2, <2>1
  <2> QED BY <2>2 DEF Abs!absVars
<1>3. ASSUME NEW n \in Requests \ {0}, owned' = owned, brk' = brk, crashed' = TRUE,
             brk + ALIGN(n + META_SIZE) > MaxHeap
      PROVE  Abs!Next
  <2>1. /\ Sizes(owned)' = [t \in DOMAIN owned |-> Sizes(owned)[t]]
        /\ Contents(mem, owned)' = [t \in DOMAIN owned |-> Contents(mem, owned)[t]]
    BY <1>3, SameContents
  <2>2. UNCHANGED <<Sizes(owned), Contents(mem, owned), brk>>
    BY <1>1, <1>3, <2>1
  <2>3. brk + n + (META_SIZE + 7) > MaxHeap
    <3>1. META_SIZE = 16 /\ n \in Nat /\ n + META_SIZE \in Nat /\ MaxHeap \in Int
      BY <1>0, Layout DEF META_SIZE, WORD_SIZE
    <3>2. ALIGN(n + META_SIZE) \in Nat /\ ALIGN(n + META_SIZE) < n + META_SIZE + 8
      BY <3>1, AlignIs
    <3> QED BY <1>0, <1>3, <3>1, <3>2
  <2>4. Abs!Fail(n)
    BY <1>3, <2>2, <2>3 DEF Abs!Fail
  <2> QED BY <1>3, <2>4 DEF Abs!Next
<1>4. ASSUME NEW n \in Requests \ {0}, NEW v \in Fillings, NEW q,
             Comes(DOMAIN owned, q, n, v, n), Widens(n), crashed' = FALSE
      PROVE  Abs!Next
  <2>1. n \in Nat
    BY <1>0
  <2>2. /\ q \in Abs!Pointers /\ Abs!Settle(DOMAIN owned, q, n)
        /\ Abs!Hold(DOMAIN owned, q, [d \in Span(0, n) |-> v])
    BY <1>4, <2>1, ComesSettles
  <2>3. Abs!Filled(n, v) = [d \in Span(0, n) |-> v]
    <3>1. {d \in Words : d < n} = Span(0, n)
      BY <2>1, Layout DEF Span, Words
    <3> QED BY <3>1 DEF Abs!Filled, Abs!Offsets
  <2>4. Abs!Grow(n)
    BY <1>0, <1>4, <2>1, WidensGrows
  <2>5. \E w \in Tags \cup {0} : Abs!Hold(Abs!Held, q, Abs!Filled(n, w))
    BY <1>1, <2>2, <2>3 DEF Fillings
  <2>6. Abs!Alloc(n)
    BY <1>0, <1>1, <1>4, <2>2, <2>4, <2>5 DEF Abs!Alloc
  <2> QED BY <1>4, <2>6 DEF Abs!Next
<1>5. ASSUME NEW t \in DOMAIN owned, NEW n \in Requests \ {0}, NEW q,
             Comes(DOMAIN owned \ {t}, q, n, owned[t].tag, Min({n, owned[t].kept})),
             Widens(n), crashed' = FALSE
      PROVE  Abs!Next
  <2>1. n \in Nat
    BY <1>0
  <2>2. /\ q \in Abs!Pointers /\ Abs!Settle(DOMAIN owned \ {t}, q, n)
        /\ Abs!Hold(DOMAIN owned \ {t}, q, [d \in Span(0, Min({n, owned[t].kept})) |-> owned[t].tag])
    BY <1>5, <2>1, ComesSettles
  <2>3. Abs!Kept(t, n) = [d \in Span(0, Min({n, owned[t].kept})) |-> owned[t].tag]
    BY <2>1, KeptIs
  <2>4. Abs!Grow(n)
    BY <1>0, <1>5, <2>1, WidensGrows
  <2>5. Abs!Resize(t, n)
    BY <1>0, <1>1, <1>5, <2>2, <2>3, <2>4 DEF Abs!Resize
  <2> QED BY <1>1, <1>5, <2>5 DEF Abs!Next
<1>6. ASSUME NEW t \in DOMAIN owned, owned' = [q \in DOMAIN owned \ {t} |-> owned[q]],
             brk' = brk, crashed' = FALSE
      PROVE  Abs!Next
  <2>1. DOMAIN owned' = DOMAIN owned \ {t} /\ \A q \in DOMAIN owned \ {t} : owned'[q] = owned[q]
    BY <1>6
  <2>2. /\ Sizes(owned)' = [q \in DOMAIN owned \ {t} |-> Sizes(owned)[q]]
        /\ Contents(mem, owned)' = [q \in DOMAIN owned \ {t} |-> Contents(mem, owned)[q]]
    BY <2>1, SameContents
  <2>3. Abs!Release(t)
    BY <1>0, <1>1, <1>6, <2>2 DEF Abs!Release
  <2> QED BY <1>1, <1>6, <2>3 DEF Abs!Next
<1>7. CASE owned' = [q \in {} |-> 0] /\ brk' = FirstBlock /\ crashed' = FALSE
  <2>1. DOMAIN owned' = {}
    BY <1>7
  <2>2. Sizes(owned') = Abs!Empty /\ Contents(mem', owned') = Abs!Empty
    BY <2>1 DEF Sizes, Contents, Abs!Empty
  <2>3. Abs!Clear
    BY <1>0, <1>7, <2>2, AfterIs DEF Abs!Clear
  <2> QED BY <1>0, <2>3 DEF Abs!Next
<1> QED BY <1>2, <1>3, <1>4, <1>5, <1>6, <1>7 DEF Outcome

\* mm_init leaves what HeapAbs begins with: no block.
LEMMA RefineInit == Init => Abs!Init
<1> SUFFICES ASSUME Init PROVE Abs!Init
  OBVIOUS
<1>1. DOMAIN owned = {} /\ brk = FirstBlock /\ crashed = FALSE
  BY DEF Init, FirstBlock
<1>2. Sizes(owned) = Abs!Empty /\ Contents(mem, owned) = Abs!Empty
  BY <1>1 DEF Sizes, Contents, Abs!Empty
<1> QED BY <1>1, <1>2 DEF Abs!Init

\* malloc, calloc, realloc and free keep the promise of HeapAbs: what they give out is
\* aligned, inside the heap and apart from all that the client holds, its words stay until
\* it frees them, and the break moves and a call fails only as far as the request goes.
THEOREM MallocImplements == Spec => AbsSpec
<1>1. HeapInv /\ HeapInv' /\ [Next]_vars => Abs!Next \/ UNCHANGED Abs!absVars
  <2> SUFFICES ASSUME HeapInv, HeapInv', [Next]_vars PROVE Abs!Next \/ UNCHANGED Abs!absVars
    OBVIOUS
  <2>1. CASE Next
    <3>1. PICK B, z : Tidy(mem, B, z, brk, DOMAIN owned) /\ Served(mem, z, owned)
      BY DEF HeapInv, Client
    <3>2. Outcome /\ Client(mem', brk', owned')
      BY <2>1, <3>1, StepAdvances DEF Advances
    <3>3. ~crashed
      BY <2>1 DEF Next, Malloc, Calloc, Free, Realloc, Reset
    <3> QED BY <3>2, <3>3, OutcomeRefines
  <2>2. CASE UNCHANGED vars
    <3>1. UNCHANGED <<Sizes(owned), Contents(mem, owned), brk, crashed>>
      BY <2>2, AfterIs DEF vars
    <3> QED BY <3>1 DEF Abs!absVars
  <2> QED BY <2>1, <2>2
<1> QED BY <1>1, HeapInvariant, RefineInit, PTL DEF Spec, AbsSpec, Abs!Spec
=============================================================================
