----------------------------- MODULE BuddyProofs -----------------------------
(* Proofs about Buddy.tla, for pools of every size. *)
EXTENDS BuddyProperties, FiniteSetTheorems, NaturalsInduction, WellFoundedInduction, TLAPS

-----------------------------------------------------------------------------
(* Arithmetic of blocks, with n for rank_num. *)

\* First page of block b of rank r.
PageOf(n, b, r) == (b - Pow2[n - r] + 1) * Pow2[r - 1]

\* The indices of rank r.
IsBlock(n, b, r) ==
  /\ r \in 1..n /\ b \in Nat
  /\ Pow2[n - r] =< b + 1 /\ b + 1 < 2 * Pow2[n - r]

(* A block of rank r + 1 is twice as wide as one of rank r. *)
LEMMA Doubling ==
  ASSUME NEW k \in 0..MaxRank, k < MaxRank
  PROVE  Pow2[k + 1] = 2 * Pow2[k] /\ Pow2[k] >= 1 /\ Pow2[k] \in Nat
<1>1. 1 \in 0..MaxRank /\ k + 1 \in 0..MaxRank /\ Pow2[1] = 2
  BY SizeAssumption, ShiftAssumption
<1>2. Pow2[k + 1] = Pow2[k] * Pow2[1]
  BY <1>1, ShiftAssumption
<1>3. Pow2[k] \in Nat /\ Pow2[k] >= 1
  <2>1. Pow2[k] \in Nat \ {0}
    BY ShiftAssumption
  <2> QED BY <2>1
<1>4. \A x \in Nat : x * 2 = 2 * x
  OBVIOUS
<1>5. Pow2[k + 1] = Pow2[k] * 2
  BY <1>1, <1>2
<1>6. Pow2[k] * 2 = 2 * Pow2[k]
  BY <1>3, <1>4
<1> QED BY <1>3, <1>5, <1>6

(* Powers are positive naturals, and grow. *)
LEMMA Powers ==
  ASSUME NEW k \in 0..MaxRank, NEW l \in k..MaxRank
  PROVE  Pow2[k] \in Nat /\ Pow2[k] >= 1 /\ Pow2[k] =< Pow2[l] /\ Pow2[l] \in Nat
<1>1. l - k \in 0..MaxRank /\ k + (l - k) = l /\ l \in 0..MaxRank
  BY SizeAssumption
<1>2. Pow2[l] = Pow2[k] * Pow2[l - k]
  BY <1>1, ShiftAssumption
<1>3. Pow2[k] \in Nat \ {0} /\ Pow2[l - k] \in Nat \ {0} /\ Pow2[l] \in Nat \ {0}
  BY <1>1, ShiftAssumption
<1>4. \A x, y \in Nat : x >= 1 /\ y >= 1 => x =< x * y
  OBVIOUS
<1> QED BY <1>2, <1>3, <1>4

(* A block lies inside the pool. *)
LEMMA BlockInPool ==
  ASSUME NEW n \in Ranks, NEW b, NEW r, IsBlock(n, b, r)
  PROVE  /\ PageOf(n, b, r) \in Nat
         /\ PageOf(n, b, r) + Width(r) =< Pow2[n - 1]
         /\ PageOf(n, b, r) \in Pages
<1> DEFINE k == b - Pow2[n - r] + 1  w == Pow2[r - 1]  s == Pow2[n - r]
<1>1. n - r \in 0..MaxRank /\ r - 1 \in 0..MaxRank /\ (n - r) + (r - 1) = n - 1
      /\ n - 1 \in 0..MaxRank
  BY SizeAssumption DEF IsBlock, Ranks
<1>2. s \in Nat /\ w \in Nat /\ w >= 1 /\ Pow2[n - 1] = s * w
  <2>1. s \in Nat \ {0} /\ w \in Nat \ {0}
    BY <1>1, ShiftAssumption
  <2> QED BY <1>1, <2>1, ShiftAssumption
<1>3. k \in Nat /\ k + 1 =< s
  BY <1>2 DEF IsBlock
<1>4. \A x, y, z \in Nat : x + 1 =< y => x * z + z =< y * z /\ x * z \in Nat
  OBVIOUS
<1>5. k * w \in Nat /\ k * w + w =< s * w
  BY <1>2, <1>3, <1>4
<1>6. Pow2[n - 1] =< Pow2[MaxRank] /\ Pow2[MaxRank] \in Nat /\ Pow2[n - 1] \in Nat
  <2>1. MaxRank \in (n - 1)..MaxRank
    BY <1>1, SizeAssumption
  <2> QED BY <1>1, <2>1, Powers
<1> HIDE DEF k, w, s
<1>7. PageOf(n, b, r) = k * w /\ Width(r) = w
  BY DEF PageOf, Width, k, w, s
<1> QED BY <1>2, <1>5, <1>6, <1>7 DEF Pages

(* The two halves of a block. *)
LEMMA Halves ==
  ASSUME NEW n \in Ranks, NEW b, NEW r, IsBlock(n, b, r), r > 1
  PROVE  /\ IsBlock(n, CHILD(b, 0), r - 1) /\ IsBlock(n, CHILD(b, 1), r - 1)
         /\ PageOf(n, CHILD(b, 0), r - 1) = PageOf(n, b, r)
         /\ PageOf(n, CHILD(b, 1), r - 1) = PageOf(n, b, r) + Width(r - 1)
         /\ Width(r) = 2 * Width(r - 1)
<1> DEFINE s == Pow2[n - r]  w == Pow2[r - 2]
<1>1. n - r \in 0..MaxRank /\ n - r < MaxRank /\ n - (r - 1) = (n - r) + 1
      /\ r - 2 \in 0..MaxRank /\ r - 2 < MaxRank /\ r - 1 = (r - 2) + 1 /\ (r - 1) - 1 = r - 2
      /\ r \in Int /\ n \in Int
  BY SizeAssumption DEF IsBlock, Ranks
<1>2. s \in Nat /\ w \in Nat /\ Pow2[n - (r - 1)] = 2 * s /\ Pow2[r - 1] = 2 * w
  BY <1>1, Doubling
<1>3. Width(r - 1) = w /\ Width(r) = 2 * w
  BY <1>1, <1>2 DEF Width
<1>4. b \in Nat /\ s =< b + 1 /\ b + 1 < 2 * s
  BY DEF IsBlock
<1>5. PageOf(n, b, r) = (b - s + 1) * (2 * w)
  BY <1>2 DEF PageOf
<1>6. \A c \in Nat : PageOf(n, c, r - 1) = (c - 2 * s + 1) * w
  BY <1>1, <1>2 DEF PageOf
<1>7. CHILD(b, 0) = 2 * b + 1 /\ CHILD(b, 1) = 2 * b + 2
  BY <1>4 DEF CHILD
<1>8. r - 1 \in 1..n
  BY <1>1 DEF IsBlock
<1> HIDE DEF s, w
<1>9. IsBlock(n, CHILD(b, 0), r - 1) /\ IsBlock(n, CHILD(b, 1), r - 1)
  BY <1>2, <1>4, <1>7, <1>8 DEF IsBlock
<1>10. \A x, y, z \in Nat :
         /\ ((2 * x + 1) - 2 * y + 1) * z = (x - y + 1) * (2 * z)
         /\ ((2 * x + 2) - 2 * y + 1) * z = (x - y + 1) * (2 * z) + z
  OBVIOUS
<1>11. PageOf(n, 2 * b + 1, r - 1) = ((2 * b + 1) - 2 * s + 1) * w
  BY <1>4, <1>6
<1>12. PageOf(n, 2 * b + 2, r - 1) = ((2 * b + 2) - 2 * s + 1) * w
  BY <1>4, <1>6
<1>13. /\ PageOf(n, 2 * b + 1, r - 1) = (b - s + 1) * (2 * w)
       /\ PageOf(n, 2 * b + 2, r - 1) = (b - s + 1) * (2 * w) + w
  BY <1>2, <1>4, <1>10, <1>11, <1>12
<1> QED BY <1>3, <1>5, <1>7, <1>9, <1>13

(* A block and its buddy are the two halves of their parent. *)
LEMMA Buddies ==
  ASSUME NEW n \in Ranks, NEW b, NEW r, IsBlock(n, b, r), r < n
  PROVE  /\ IsBlock(n, BUDDY(b), r) /\ IsBlock(n, PARENT(b), r + 1)
         /\ Width(r + 1) = 2 * Width(r)
         /\ \/ /\ PageOf(n, BUDDY(b), r) = PageOf(n, b, r) + Width(r)
               /\ PageOf(n, PARENT(b), r + 1) = PageOf(n, b, r)
            \/ /\ PageOf(n, b, r) = PageOf(n, BUDDY(b), r) + Width(r)
               /\ PageOf(n, PARENT(b), r + 1) = PageOf(n, BUDDY(b), r)
<1> DEFINE s == Pow2[n - r - 1]
<1>1. n - r - 1 \in 0..MaxRank /\ n - r - 1 < MaxRank /\ n - r = (n - r - 1) + 1
      /\ n - (r + 1) = n - r - 1 /\ r \in Int /\ r + 1 \in 1..n /\ r + 1 > 1 /\ (r + 1) - 1 = r
  BY SizeAssumption DEF IsBlock, Ranks
<1>2. s \in Nat /\ s >= 1 /\ Pow2[n - r] = 2 * s /\ Pow2[n - (r + 1)] = s
  BY <1>1, Doubling
<1>3. b \in Nat /\ 2 * s =< b + 1 /\ b + 1 < 4 * s
  BY <1>2 DEF IsBlock
<1> HIDE DEF s
<1>4. PICK j \in Nat : b = 2 * j + 1 \/ b = 2 * j + 2
  <2>1. CASE b % 2 = 1
    <3>1. b \div 2 \in Nat /\ b = 2 * (b \div 2) + 1
      BY <1>3, <2>1
    <3> QED BY <3>1
  <2>2. CASE b % 2 # 1
    <3>1. b \div 2 \in Nat /\ b = 2 * (b \div 2)
      BY <1>3, <2>2
    <3>2. b \div 2 - 1 \in Nat /\ b = 2 * (b \div 2 - 1) + 2
      BY <1>2, <1>3, <3>1
    <3> QED BY <3>2
  <2> QED BY <2>1, <2>2
<1>5. PARENT(b) = j
  <2>1. b - 1 = 2 * j \/ b - 1 = 2 * j + 1
    BY <1>4
  <2>2. (2 * j) \div 2 = j /\ (2 * j + 1) \div 2 = j
    BY <1>4
  <2> QED BY <2>1, <2>2 DEF PARENT
<1>6. IsBlock(n, j, r + 1)
  BY <1>1, <1>2, <1>3, <1>4 DEF IsBlock
<1>7. CHILD(j, 0) = 2 * j + 1 /\ CHILD(j, 1) = 2 * j + 2
  BY <1>4 DEF CHILD
<1>8. /\ IsBlock(n, 2 * j + 1, r) /\ IsBlock(n, 2 * j + 2, r)
      /\ PageOf(n, 2 * j + 1, r) = PageOf(n, j, r + 1)
      /\ PageOf(n, 2 * j + 2, r) = PageOf(n, j, r + 1) + Width(r)
      /\ Width(r + 1) = 2 * Width(r)
  <2>1. /\ IsBlock(n, CHILD(j, 0), (r + 1) - 1) /\ IsBlock(n, CHILD(j, 1), (r + 1) - 1)
        /\ PageOf(n, CHILD(j, 0), (r + 1) - 1) = PageOf(n, j, r + 1)
        /\ PageOf(n, CHILD(j, 1), (r + 1) - 1) = PageOf(n, j, r + 1) + Width((r + 1) - 1)
        /\ Width(r + 1) = 2 * Width((r + 1) - 1)
    BY <1>1, <1>6, Halves
  <2> QED BY <1>1, <1>7, <2>1
<1>9. (2 * j + 1) % 2 = 1 /\ (2 * j + 2) % 2 = 0
  BY <1>4
<1>10. (b = 2 * j + 1 => BUDDY(b) = 2 * j + 2) /\ (b = 2 * j + 2 => BUDDY(b) = 2 * j + 1)
  BY <1>4, <1>9 DEF BUDDY
<1> QED BY <1>4, <1>5, <1>6, <1>8, <1>10

-----------------------------------------------------------------------------
(* Blocks that partition a pool: S holds their first pages, w their widths. *)

Tiles(S, w, size) ==
  /\ \A p \in S : p \in Nat /\ w[p] \in Nat /\ w[p] >= 1 /\ p + w[p] =< size
  /\ \A p, q \in S : p < q => p + w[p] =< q
  /\ \A x \in 0..(size - 1) : \E p \in S : p =< x /\ x < p + w[p]

(* Only the widths of the blocks matter. *)
LEMMA TilesSame ==
  ASSUME NEW S, NEW w, NEW v, NEW size, Tiles(S, w, size),
         \A p \in S : v[p] = w[p]
  PROVE  Tiles(S, v, size)
BY DEF Tiles

(* No block starts inside another one. *)
LEMMA TilesInside ==
  ASSUME NEW S, NEW w, NEW size, Tiles(S, w, size),
         NEW p \in S, NEW h \in Nat, h >= 1, h < w[p]
  PROVE  p + h \notin S
BY DEF Tiles

(* A block may be replaced by its halves. *)
LEMMA TilesSplit ==
  ASSUME NEW S, NEW w, NEW v, NEW size \in Nat, Tiles(S, w, size),
         NEW p \in S, NEW h \in Nat, h >= 1, w[p] = 2 * h,
         v[p] = h, v[p + h] = h, \A q \in S : q # p => v[q] = w[q]
  PROVE  Tiles(S \cup {p + h}, v, size)
<1> DEFINE T == S \cup {p + h}
<1>1. p \in Nat /\ p + 2 * h =< size
  BY DEF Tiles
<1>2. \A q \in T : q \in Nat /\ v[q] \in Nat /\ v[q] >= 1 /\ q + v[q] =< size
  <2> SUFFICES ASSUME NEW q \in T
               PROVE  q \in Nat /\ v[q] \in Nat /\ v[q] >= 1 /\ q + v[q] =< size
    OBVIOUS
  <2>1. CASE q = p \/ q = p + h
    BY <1>1, <2>1
  <2>2. CASE q \in S /\ q # p
    <3>1. q \in Nat /\ w[q] \in Nat /\ w[q] >= 1 /\ q + w[q] =< size
      BY <2>2 DEF Tiles
    <3> QED BY <2>2, <3>1
  <2> QED BY <2>1, <2>2
<1>3. ASSUME NEW q \in T, NEW r \in T, q < r
      PROVE  q + v[q] =< r
  <2>1. CASE q = p + h
    <3>1. r \in S /\ r # p
      BY <1>1, <1>3, <2>1
    <3>2. r > p /\ p + 2 * h =< r
      BY <1>1, <1>3, <2>1, <3>1 DEF Tiles
    <3> QED BY <1>1, <2>1, <3>2
  <2>2. CASE q \in S /\ r = p + h
    <3>1. q = p \/ q # p
      OBVIOUS
    <3>2. CASE q = p
      BY <1>1, <2>2, <3>2
    <3>3. CASE q # p
      <4>1. q \in Nat /\ (q < p \/ p < q)
        BY <1>1, <2>2, <3>3 DEF Tiles
      <4>2. ~(p < q)
        <5> SUFFICES ASSUME p < q PROVE FALSE
          OBVIOUS
        <5>1. p + 2 * h =< q
          BY <2>2 DEF Tiles
        <5> QED BY <1>1, <1>3, <2>2, <4>1, <5>1
      <4>3. q + w[q] =< p /\ v[q] = w[q] /\ w[q] \in Nat
        BY <2>2, <3>3, <4>1, <4>2 DEF Tiles
      <4> QED BY <1>1, <2>2, <4>1, <4>3
    <3> QED BY <3>1, <3>2, <3>3
  <2>3. CASE q \in S /\ r \in S
    <3>1. q + w[q] =< r /\ q \in Nat /\ r \in Nat /\ w[q] \in Nat
      BY <1>3, <2>3 DEF Tiles
    <3>2. v[q] =< w[q] /\ v[q] \in Nat
      BY <2>3, <3>1
    <3> QED BY <3>1, <3>2
  <2> QED BY <2>1, <2>2, <2>3
<1>4. ASSUME NEW x \in 0..(size - 1)
      PROVE  \E q \in T : q =< x /\ x < q + v[q]
  <2>1. PICK q \in S : q =< x /\ x < q + w[q]
    BY DEF Tiles
  <2>2. CASE q # p
    BY <2>1, <2>2
  <2>3. CASE q = p /\ x < p + h
    BY <2>1, <2>3
  <2>4. CASE q = p /\ ~(x < p + h)
    <3>1. p + h =< x /\ x < (p + h) + v[p + h]
      BY <1>1, <2>1, <2>4
    <3> QED BY <3>1
  <2> QED BY <2>2, <2>3, <2>4
<1> QED BY <1>2, <1>3, <1>4 DEF Tiles

(* Two halves may be replaced by their block. *)
LEMMA TilesMerge ==
  ASSUME NEW S, NEW w, NEW v, NEW size \in Nat, Tiles(S, w, size),
         NEW p \in S, NEW h \in Nat, h >= 1, p + h \in S, w[p] = h, w[p + h] = h,
         v[p] = 2 * h, \A q \in S : q # p /\ q # p + h => v[q] = w[q]
  PROVE  Tiles(S \ {p + h}, v, size)
<1> DEFINE T == S \ {p + h}
<1>1. p \in Nat /\ (p + h) + h =< size
  BY DEF Tiles
<1>2. \A q \in T : q \in Nat /\ v[q] \in Nat /\ v[q] >= 1 /\ q + v[q] =< size
  <2> SUFFICES ASSUME NEW q \in T
               PROVE  q \in Nat /\ v[q] \in Nat /\ v[q] >= 1 /\ q + v[q] =< size
    OBVIOUS
  <2>1. CASE q = p
    BY <1>1, <2>1
  <2>2. CASE q # p
    BY <2>2 DEF Tiles
  <2> QED BY <2>1, <2>2
<1>3. ASSUME NEW q \in T, NEW r \in T, q < r
      PROVE  q + v[q] =< r
  <2>1. q \in Nat /\ r \in Nat /\ q + w[q] =< r /\ w[q] \in Nat
    BY <1>3 DEF Tiles
  <2>2. CASE q # p
    BY <2>1, <2>2
  <2>3. CASE q = p
    <3>1. r # p + h /\ p + h =< r
      BY <2>1, <2>3
    <3>2. (p + h) + w[p + h] =< r
      BY <1>1, <1>3, <2>1, <3>1 DEF Tiles
    <3> QED BY <1>1, <2>1, <2>3, <3>2
  <2> QED BY <2>2, <2>3
<1>4. ASSUME NEW x \in 0..(size - 1)
      PROVE  \E q \in T : q =< x /\ x < q + v[q]
  <2>1. PICK q \in S : q =< x /\ x < q + w[q]
    BY DEF Tiles
  <2>2. CASE q # p /\ q # p + h
    BY <2>1, <2>2
  <2>3. CASE q = p \/ q = p + h
    <3>1. p \in T /\ p =< x /\ x < p + v[p]
      BY <1>1, <2>1, <2>3
    <3> QED BY <3>1
  <2> QED BY <2>2, <2>3
<1> QED BY <1>2, <1>3, <1>4 DEF Tiles

-----------------------------------------------------------------------------
(* The list of a rank, linked both ways: S holds its nodes. *)

ListsTyped(L) ==
  /\ L.bucket \in [Ranks -> Pages \cup {NULL}]
  /\ L.prev \in [Pages -> Pages \cup {NULL}]
  /\ L.next \in [Pages -> Pages \cup {NULL}]

Joined(L, r, S) ==
  /\ S \subseteq Pages
  /\ L.bucket[r] \in S \cup {NULL}
  /\ L.bucket[r] # NULL => L.prev[L.bucket[r]] = NULL
  /\ \A x \in S :
       /\ L.next[x] \in S \cup {NULL} /\ L.prev[x] \in S \cup {NULL}
       /\ L.next[x] # NULL => L.prev[L.next[x]] = x
       /\ L.prev[x] # NULL => L.next[L.prev[x]] = x
       /\ L.prev[x] = NULL => L.bucket[r] = x

\* NULL is no page.
LEMMA NoPage == NULL \notin Pages
BY DEF NULL, Pages

(* list_push keeps the neighbours of its list, and of the others, joined. *)
LEMMA PushJoins ==
  ASSUME NEW L, ListsTyped(L), NEW r \in Ranks, NEW S, Joined(L, r, S),
         NEW x \in Pages, x \notin S
  PROVE  /\ ListsTyped(list_push(L, r, x))
         /\ Joined(list_push(L, r, x), r, S \cup {x})
         /\ \A q \in Ranks : \A T : q # r /\ Joined(L, q, T) /\ T \cap (S \cup {x}) = {}
              => Joined(list_push(L, r, x), q, T)
         /\ list_push(L, r, x).bucket[r] = x
<1> DEFINE M == list_push(L, r, x)
<1>1. /\ M.bucket = [L.bucket EXCEPT ![r] = x]
      /\ M.prev = Store([L.prev EXCEPT ![x] = NULL], L.bucket[r], x)
      /\ M.next = [L.next EXCEPT ![x] = L.bucket[r]]
  BY DEF list_push
<1> HIDE DEF M
<1>2. ListsTyped(M)
  BY <1>1 DEF ListsTyped, Store
<1>3. Joined(M, r, S \cup {x})
  BY <1>1, NoPage DEF ListsTyped, Store, Joined
<1>4. ASSUME NEW q \in Ranks, NEW T, q # r, Joined(L, q, T), T \cap (S \cup {x}) = {}
      PROVE  Joined(M, q, T)
  BY <1>1, <1>4, NoPage DEF ListsTyped, Store, Joined
<1>5. M.bucket[r] = x
  BY <1>1 DEF ListsTyped
<1> QED BY <1>2, <1>3, <1>4, <1>5 DEF M

(* So does list_pop. *)
LEMMA PopJoins ==
  ASSUME NEW L, ListsTyped(L), NEW r \in Ranks, NEW S, Joined(L, r, S),
         L.bucket[r] # NULL
  PROVE  /\ ListsTyped(list_pop(L, r))
         /\ Joined(list_pop(L, r), r, S \ {L.bucket[r]})
         /\ \A q \in Ranks : \A T : q # r /\ Joined(L, q, T) /\ T \cap S = {}
              => Joined(list_pop(L, r), q, T)
<1> DEFINE M == list_pop(L, r)
<1>1. /\ M.bucket = [L.bucket EXCEPT ![r] = L.next[L.bucket[r]]]
      /\ M.prev = Store(L.prev, L.next[L.bucket[r]], NULL)
      /\ M.next = L.next
  BY DEF list_pop
<1> HIDE DEF M
<1>2. ListsTyped(M)
  BY <1>1 DEF ListsTyped, Store
<1>3. Joined(M, r, S \ {L.bucket[r]})
  BY <1>1, NoPage DEF ListsTyped, Store, Joined
<1>4. ASSUME NEW q \in Ranks, NEW T, q # r, Joined(L, q, T), T \cap S = {}
      PROVE  Joined(M, q, T)
  BY <1>1, <1>4, NoPage DEF ListsTyped, Store, Joined
<1> QED BY <1>2, <1>3, <1>4 DEF M

(* And list_remove, at any place of its list. *)
LEMMA RemoveJoins ==
  ASSUME NEW L, ListsTyped(L), NEW r \in Ranks, NEW S, Joined(L, r, S),
         NEW x \in S
  PROVE  /\ ListsTyped(list_remove(L, r, x))
         /\ Joined(list_remove(L, r, x), r, S \ {x})
         /\ \A q \in Ranks : \A T : q # r /\ Joined(L, q, T) /\ T \cap S = {}
              => Joined(list_remove(L, r, x), q, T)
<1> DEFINE M == list_remove(L, r, x)
<1>1. /\ M.bucket = IF x = L.bucket[r] THEN [L.bucket EXCEPT ![r] = L.next[x]] ELSE L.bucket
      /\ M.prev = Store(L.prev, L.next[x], L.prev[x])
      /\ M.next = Store(L.next, L.prev[x], L.next[x])
  BY DEF list_remove
<1> HIDE DEF M
<1>2. x \in Pages
  BY DEF Joined
<1>3. ListsTyped(M)
  BY <1>1, <1>2 DEF ListsTyped, Store
<1>4. Joined(M, r, S \ {x})
  BY <1>1, <1>2, NoPage DEF ListsTyped, Store, Joined
<1>5. ASSUME NEW q \in Ranks, NEW T, q # r, Joined(L, q, T), T \cap S = {}
      PROVE  Joined(M, q, T)
  BY <1>1, <1>2, <1>5, NoPage DEF ListsTyped, Store, Joined
<1> QED BY <1>3, <1>4, <1>5 DEF M

\* From its head the list leads through every node of S once: s[1], ..., s[N].
InLine(L, r, S, N, s) ==
  /\ N \in Nat /\ s \in [1..N -> S]
  /\ \A x \in S : \E i \in 1..N : s[i] = x
  /\ \A i, j \in 1..N : s[i] = s[j] => i = j
  /\ L.bucket[r] = IF N = 0 THEN NULL ELSE s[1]
  /\ \A i \in 1..N : L.next[s[i]] = IF i = N THEN NULL ELSE s[i + 1]

Linked(L, r, S) == Joined(L, r, S) /\ \E N, s : InLine(L, r, S, N, s)

(* list_push adds the node to its list, as the first, and leaves the other
   lists alone. *)
LEMMA PushLinks ==
  ASSUME NEW L, ListsTyped(L), NEW r \in Ranks, NEW S, Linked(L, r, S),
         NEW x \in Pages, x \notin S
  PROVE  /\ ListsTyped(list_push(L, r, x))
         /\ Linked(list_push(L, r, x), r, S \cup {x})
         /\ \A q \in Ranks : \A T : q # r /\ Linked(L, q, T) /\ T \cap (S \cup {x}) = {}
              => Linked(list_push(L, r, x), q, T)
         /\ list_push(L, r, x).bucket[r] = x
<1> DEFINE M == list_push(L, r, x)
<1>1. /\ M.bucket = [L.bucket EXCEPT ![r] = x]
      /\ M.next = [L.next EXCEPT ![x] = L.bucket[r]]
  BY DEF list_push
<1>2. /\ ListsTyped(M) /\ Joined(M, r, S \cup {x}) /\ M.bucket[r] = x
      /\ \A q \in Ranks : \A T : q # r /\ Joined(L, q, T) /\ T \cap (S \cup {x}) = {}
              => Joined(M, q, T)
  BY PushJoins DEF Linked
<1> HIDE DEF M
<1>3. PICK N, s : InLine(L, r, S, N, s)
  BY DEF Linked
<1> DEFINE t == [i \in 1..(N + 1) |-> IF i = 1 THEN x ELSE s[i - 1]]
<1>4. InLine(M, r, S \cup {x}, N + 1, t)
  <2>1. N + 1 \in Nat /\ N + 1 # 0 /\ N \in Nat
    BY <1>3 DEF InLine
  <2>2. \A i \in 1..(N + 1) : i # 1 => i - 1 \in 1..N
    BY <2>1
  <2>3. t[1] = x /\ (\A i \in 1..N : t[i + 1] = s[i] /\ i + 1 \in 1..(N + 1) /\ i + 1 # 1)
        /\ 1 \in 1..(N + 1)
    BY <2>1
  <2>4. \A i \in 1..N : s[i] \in S
    BY <1>3 DEF InLine
  <2>5. t \in [1..(N + 1) -> S \cup {x}]
    BY <2>2, <2>4
  <2>6. \A i \in 1..(N + 1) : i = 1 \/ (\E j \in 1..N : i = j + 1)
    BY <2>1
  <2> HIDE DEF t
  <2>7. \A y \in S \cup {x} : \E i \in 1..(N + 1) : t[i] = y
    BY <1>3, <2>3 DEF InLine
  <2>8. \A i, j \in 1..(N + 1) : t[i] = t[j] => i = j
    <3> SUFFICES ASSUME NEW i \in 1..(N + 1), NEW j \in 1..(N + 1), t[i] = t[j] PROVE i = j
      OBVIOUS
    <3>1. CASE i = 1 /\ j = 1
      BY <3>1
    <3>2. CASE i # 1 /\ j # 1
      <4>1. PICK c \in 1..N, d \in 1..N : i = c + 1 /\ j = d + 1
        BY <2>6, <3>2
      <4>2. s[c] = s[d]
        BY <2>3, <4>1
      <4> QED BY <1>3, <4>1, <4>2 DEF InLine
    <3>3. CASE (i = 1 /\ j # 1) \/ (i # 1 /\ j = 1)
      BY <2>3, <2>4, <2>6, <3>3
    <3> QED BY <3>1, <3>2, <3>3
  <2>9. \A i \in 1..(N + 1) : M.next[t[i]] = IF i = N + 1 THEN NULL ELSE t[i + 1]
    <3> SUFFICES ASSUME NEW i \in 1..(N + 1)
                 PROVE  M.next[t[i]] = IF i = N + 1 THEN NULL ELSE t[i + 1]
      OBVIOUS
    <3>0. L.next \in [Pages -> Pages \cup {NULL}] /\ S \subseteq Pages
      BY DEF ListsTyped, Linked, Joined
    <3>1. CASE i = 1
      <4>1. M.next[x] = L.bucket[r] /\ L.bucket[r] = IF N = 0 THEN NULL ELSE s[1]
        BY <1>1, <1>3, <3>0 DEF InLine
      <4>2. N # 0 => t[2] = s[1]
        BY <2>1, <2>3
      <4> QED BY <2>1, <2>3, <3>1, <4>1, <4>2
    <3>2. CASE i # 1
      <4>1. PICK j \in 1..N : i = j + 1
        BY <2>6, <3>2
      <4>2. t[i] = s[j] /\ s[j] \in Pages /\ s[j] # x
        BY <2>3, <2>4, <3>0, <4>1
      <4>3. M.next[s[j]] = L.next[s[j]]
        BY <1>1, <3>0, <4>2
      <4>4. L.next[s[j]] = IF j = N THEN NULL ELSE s[j + 1]
        BY <1>3 DEF InLine
      <4>5. j # N => t[i + 1] = s[j + 1]
        <5>1. j # N => j + 1 \in 1..N
          BY <2>1
        <5> QED BY <2>3, <4>1, <5>1
      <4>6. j = N <=> i = N + 1
        BY <2>1, <4>1
      <4> QED BY <4>2, <4>3, <4>4, <4>5, <4>6
    <3> QED BY <3>1, <3>2
  <2> QED BY <1>2, <2>1, <2>3, <2>5, <2>7, <2>8, <2>9 DEF InLine
<1> HIDE DEF t
<1>5. ASSUME NEW q \in Ranks, NEW T, q # r, Linked(L, q, T), T \cap (S \cup {x}) = {}
      PROVE  Linked(M, q, T)
  <2>1. PICK K, u : InLine(L, q, T, K, u)
    BY <1>5 DEF Linked
  <2>2. T \subseteq Pages /\ L.next \in [Pages -> Pages \cup {NULL}]
        /\ L.bucket \in [Ranks -> Pages \cup {NULL}]
    BY <1>5 DEF Linked, Joined, ListsTyped
  <2>3. M.bucket[q] = L.bucket[q] /\ \A y \in T : M.next[y] = L.next[y]
    BY <1>1, <1>5, <2>2
  <2>4. InLine(M, q, T, K, u)
    BY <2>1, <2>3 DEF InLine
  <2> QED BY <1>2, <1>5, <2>4 DEF Linked
<1> QED BY <1>2, <1>4, <1>5 DEF Linked, M

(* list_pop takes the first node. *)
LEMMA PopLinks ==
  ASSUME NEW L, ListsTyped(L), NEW r \in Ranks, NEW S, Linked(L, r, S),
         L.bucket[r] # NULL
  PROVE  /\ ListsTyped(list_pop(L, r))
         /\ Linked(list_pop(L, r), r, S \ {L.bucket[r]})
         /\ \A q \in Ranks : \A T : q # r /\ Linked(L, q, T) /\ T \cap S = {}
              => Linked(list_pop(L, r), q, T)
<1> DEFINE M == list_pop(L, r)  x == L.bucket[r]
<1>1. /\ M.bucket = [L.bucket EXCEPT ![r] = L.next[x]]
      /\ M.next = L.next
  BY DEF list_pop
<1>2. /\ ListsTyped(M) /\ Joined(M, r, S \ {x})
      /\ \A q \in Ranks : \A T : q # r /\ Joined(L, q, T) /\ T \cap S = {}
              => Joined(M, q, T)
  BY PopJoins DEF Linked
<1> HIDE DEF M, x
<1>3. PICK N, s : InLine(L, r, S, N, s)
  BY DEF Linked
<1>4. N \in Nat /\ N # 0 /\ N - 1 \in Nat /\ x = s[1] /\ x \in S
  BY <1>3 DEF InLine, x
<1> DEFINE t == [i \in 1..(N - 1) |-> s[i + 1]]
<1>5. InLine(M, r, S \ {x}, N - 1, t)
  <2>1. \A i \in 1..(N - 1) : i + 1 \in 1..N /\ i + 1 # 1 /\ t[i] = s[i + 1]
    BY <1>4
  <2>2. t \in [1..(N - 1) -> S \ {x}]
    <3>1. ASSUME NEW i \in 1..(N - 1) PROVE s[i + 1] \in S \ {x}
      <4>1. i + 1 \in 1..N /\ 1 \in 1..N /\ i + 1 # 1
        BY <1>4
      <4> QED BY <1>3, <1>4, <4>1 DEF InLine
    <3> QED BY <3>1
  <2> HIDE DEF t
  <2>3. \A y \in S \ {x} : \E i \in 1..(N - 1) : t[i] = y
    <3> SUFFICES ASSUME NEW y \in S \ {x} PROVE \E i \in 1..(N - 1) : t[i] = y
      OBVIOUS
    <3>1. PICK j \in 1..N : s[j] = y
      BY <1>3 DEF InLine
    <3>2. j # 1
      BY <1>4, <3>1
    <3>3. j - 1 \in 1..(N - 1) /\ (j - 1) + 1 = j
      BY <1>4, <3>2
    <3> QED BY <2>1, <3>1, <3>3
  <2>4. \A i, j \in 1..(N - 1) : t[i] = t[j] => i = j
    <3> SUFFICES ASSUME NEW i \in 1..(N - 1), NEW j \in 1..(N - 1), t[i] = t[j] PROVE i = j
      OBVIOUS
    <3>1. i + 1 = j + 1
      BY <1>3, <2>1 DEF InLine
    <3> QED BY <1>4, <3>1
  <2>5. \A i \in 1..(N - 1) : M.next[t[i]] = IF i = N - 1 THEN NULL ELSE t[i + 1]
    <3> SUFFICES ASSUME NEW i \in 1..(N - 1)
                 PROVE  M.next[t[i]] = IF i = N - 1 THEN NULL ELSE t[i + 1]
      OBVIOUS
    <3>1. M.next[t[i]] = IF i + 1 = N THEN NULL ELSE s[(i + 1) + 1]
      BY <1>1, <1>3, <2>1 DEF InLine
    <3>2. i # N - 1 => i + 1 \in 1..(N - 1)
      BY <1>4
    <3>3. i + 1 = N <=> i = N - 1
      BY <1>4
    <3> QED BY <2>1, <3>1, <3>2, <3>3
  <2>6. M.bucket[r] = IF N - 1 = 0 THEN NULL ELSE t[1]
    <3>1. M.bucket[r] = L.next[s[1]]
      BY <1>1, <1>4 DEF ListsTyped
    <3>2. 1 \in 1..N /\ (N = 1 <=> N - 1 = 0)
      BY <1>4
    <3>3. L.next[s[1]] = IF 1 = N THEN NULL ELSE s[1 + 1]
      BY <1>3, <3>2 DEF InLine
    <3>4. N - 1 # 0 => 1 \in 1..(N - 1)
      BY <1>4
    <3> QED BY <2>1, <3>1, <3>2, <3>3, <3>4
  <2> QED BY <1>4, <2>2, <2>3, <2>4, <2>5, <2>6 DEF InLine
<1> HIDE DEF t
<1>6. ASSUME NEW q \in Ranks, NEW T, q # r, Linked(L, q, T), T \cap S = {}
      PROVE  Linked(M, q, T)
  <2>1. PICK K, u : InLine(L, q, T, K, u)
    BY <1>6 DEF Linked
  <2>2. M.bucket[q] = L.bucket[q]
    BY <1>1, <1>6 DEF ListsTyped
  <2>3. InLine(M, q, T, K, u)
    BY <1>1, <2>1, <2>2 DEF InLine
  <2> QED BY <1>2, <1>6, <2>3 DEF Linked
<1> QED BY <1>2, <1>5, <1>6 DEF Linked, M, x

(* list_remove takes a node from any place of its list. *)
LEMMA RemoveLinks ==
  ASSUME NEW L, ListsTyped(L), NEW r \in Ranks, NEW S, Linked(L, r, S),
         NEW x \in S
  PROVE  /\ ListsTyped(list_remove(L, r, x))
         /\ Linked(list_remove(L, r, x), r, S \ {x})
         /\ \A q \in Ranks : \A T : q # r /\ Linked(L, q, T) /\ T \cap S = {}
              => Linked(list_remove(L, r, x), q, T)
<1> DEFINE M == list_remove(L, r, x)
<1>1. /\ M.bucket = IF x = L.bucket[r] THEN [L.bucket EXCEPT ![r] = L.next[x]] ELSE L.bucket
      /\ M.next = Store(L.next, L.prev[x], L.next[x])
  BY DEF list_remove
<1>2. /\ ListsTyped(M) /\ Joined(M, r, S \ {x})
      /\ \A q \in Ranks : \A T : q # r /\ Joined(L, q, T) /\ T \cap S = {}
              => Joined(M, q, T)
  BY RemoveJoins DEF Linked
<1> HIDE DEF M
<1>3. PICK N, s : InLine(L, r, S, N, s)
  BY DEF Linked
<1>4. PICK k \in 1..N : s[k] = x
  BY <1>3 DEF InLine
<1>5. N \in Nat /\ N - 1 \in Nat /\ k \in Nat /\ 1 =< k /\ k =< N
  BY <1>3, <1>4 DEF InLine
<1>6. S \subseteq Pages /\ L.next \in [Pages -> Pages \cup {NULL}]
      /\ L.bucket \in [Ranks -> Pages \cup {NULL}] /\ \A i \in 1..N : s[i] \in S
  BY <1>3 DEF Linked, Joined, ListsTyped, InLine
<1>7. L.prev[x] = IF k = 1 THEN NULL ELSE s[k - 1]
  <2>1. CASE k = 1
    <3>1. L.bucket[r] = x /\ x # NULL
      BY <1>3, <1>4, <1>5, <1>6, <2>1, NoPage DEF InLine
    <3> QED BY <2>1, <3>1 DEF Linked, Joined
  <2>2. CASE k # 1
    <3>1. k - 1 \in 1..N /\ k - 1 # N /\ (k - 1) + 1 = k
      BY <1>5, <2>2
    <3>2. L.next[s[k - 1]] = x /\ s[k - 1] \in S
      BY <1>3, <1>4, <1>6, <3>1 DEF InLine
    <3>3. x # NULL
      BY <1>6, NoPage
    <3> QED BY <2>2, <3>2, <3>3 DEF Linked, Joined
  <2> QED BY <2>1, <2>2
<1> DEFINE t == [i \in 1..(N - 1) |-> IF i < k THEN s[i] ELSE s[i + 1]]
<1>8. InLine(M, r, S \ {x}, N - 1, t)
  <2>1. \A i \in 1..(N - 1) : i \in 1..N /\ i + 1 \in 1..N /\ i # N
                              /\ t[i] = IF i < k THEN s[i] ELSE s[i + 1]
    BY <1>5
  <2>2. t \in [1..(N - 1) -> S \ {x}]
    <3>1. ASSUME NEW i \in 1..(N - 1)
          PROVE  (IF i < k THEN s[i] ELSE s[i + 1]) \in S \ {x}
      <4>1. i \in 1..N /\ i + 1 \in 1..N /\ (i < k => i # k) /\ (~(i < k) => i + 1 # k)
        BY <1>5
      <4> QED BY <1>3, <1>4, <1>6, <4>1 DEF InLine
    <3> QED BY <3>1
  <2> HIDE DEF t
  <2>3. \A y \in S \ {x} : \E i \in 1..(N - 1) : t[i] = y
    <3> SUFFICES ASSUME NEW y \in S \ {x} PROVE \E i \in 1..(N - 1) : t[i] = y
      OBVIOUS
    <3>1. PICK j \in 1..N : s[j] = y
      BY <1>3 DEF InLine
    <3>2. j # k
      BY <1>4, <3>1
    <3>3. CASE j < k
      <4>1. j \in 1..(N - 1)
        BY <1>5, <3>3
      <4> QED BY <2>1, <3>1, <3>3, <4>1
    <3>4. CASE ~(j < k)
      <4>1. j - 1 \in 1..(N - 1) /\ (j - 1) + 1 = j /\ ~(j - 1 < k)
        BY <1>5, <3>2, <3>4
      <4> QED BY <2>1, <3>1, <4>1
    <3> QED BY <3>3, <3>4
  <2>4. \A i, j \in 1..(N - 1) : t[i] = t[j] => i = j
    <3> SUFFICES ASSUME NEW i \in 1..(N - 1), NEW j \in 1..(N - 1), t[i] = t[j] PROVE i = j
      OBVIOUS
    <3>1. (IF i < k THEN i ELSE i + 1) = (IF j < k THEN j ELSE j + 1)
      BY <1>3, <2>1 DEF InLine
    <3> QED BY <1>5, <3>1
  <2>5. \A i \in 1..(N - 1) : M.next[t[i]] = IF i = N - 1 THEN NULL ELSE t[i + 1]
    <3> SUFFICES ASSUME NEW i \in 1..(N - 1)
                 PROVE  M.next[t[i]] = IF i = N - 1 THEN NULL ELSE t[i + 1]
      OBVIOUS
    <3>1. \A j \in 1..N : M.next[s[j]] = IF j = k - 1 THEN L.next[x] ELSE L.next[s[j]]
      <4> SUFFICES ASSUME NEW j \in 1..N
                   PROVE  M.next[s[j]] = IF j = k - 1 THEN L.next[x] ELSE L.next[s[j]]
        OBVIOUS
      <4>1. CASE k = 1
        <5>1. M.next = L.next /\ j # k - 1
          BY <1>1, <1>7, <4>1 DEF Store
        <5> QED BY <5>1
      <4>2. CASE k # 1
        <5>1. k - 1 \in 1..N
          BY <1>5, <4>2
        <5>2. s[k - 1] \in S /\ s[k - 1] # NULL /\ s[j] \in Pages /\ s[k - 1] \in Pages
          BY <1>6, <5>1, NoPage
        <5>3. M.next = [L.next EXCEPT ![s[k - 1]] = L.next[x]]
          BY <1>1, <1>7, <4>2, <5>2 DEF Store
        <5>4. M.next[s[j]] = IF s[j] = s[k - 1] THEN L.next[x] ELSE L.next[s[j]]
          BY <1>6, <5>2, <5>3
        <5>5. s[j] = s[k - 1] <=> j = k - 1
          BY <1>3, <5>1 DEF InLine
        <5> QED BY <5>4, <5>5
      <4> QED BY <4>1, <4>2
    <3>2. \A j \in 1..N : L.next[s[j]] = IF j = N THEN NULL ELSE s[j + 1]
      BY <1>3 DEF InLine
    <3>3. L.next[x] = IF k = N THEN NULL ELSE s[k + 1]
      BY <1>4, <3>2
    <3>4. i \in 1..N /\ i + 1 \in 1..N
      BY <1>5
    <3>5. CASE i < k - 1
      <4>1. i < k /\ i + 1 < k /\ i # k - 1 /\ i # N /\ i # N - 1 /\ i + 1 \in 1..(N - 1)
        BY <1>5, <3>5
      <4>2. t[i] = s[i] /\ t[i + 1] = s[i + 1]
        BY <2>1, <4>1
      <4> QED BY <3>1, <3>2, <3>4, <4>1, <4>2
    <3>6. CASE i = k - 1
      <4>1. i < k /\ (i = N - 1 <=> k = N) /\ (i # N - 1 => i + 1 \in 1..(N - 1) /\ ~(i + 1 < k))
            /\ (i + 1) + 1 = k + 1
        BY <1>5, <3>6
      <4>2. t[i] = s[i] /\ (i # N - 1 => t[i + 1] = s[k + 1])
        BY <2>1, <4>1
      <4> QED BY <3>1, <3>3, <3>4, <3>6, <4>1, <4>2
    <3>7. CASE i >= k
      <4>1. ~(i < k) /\ i + 1 # k - 1 /\ (i = N - 1 <=> i + 1 = N)
            /\ (i # N - 1 => i + 1 \in 1..(N - 1) /\ ~(i + 1 < k))
        BY <1>5, <3>7
      <4>2. t[i] = s[i + 1] /\ (i # N - 1 => t[i + 1] = s[(i + 1) + 1])
        BY <2>1, <4>1
      <4> QED BY <3>1, <3>2, <3>4, <4>1, <4>2
    <3>8. i < k - 1 \/ i = k - 1 \/ i >= k
      BY <1>5
    <3> QED BY <3>5, <3>6, <3>7, <3>8
  <2>6. M.bucket[r] = IF N - 1 = 0 THEN NULL ELSE t[1]
    <3>1. L.bucket[r] = s[1] /\ 1 \in 1..N
      BY <1>3, <1>5 DEF InLine
    <3>2. CASE k = 1
      <4>1. M.bucket[r] = L.next[x] /\ L.next[x] = IF 1 = N THEN NULL ELSE s[1 + 1]
        BY <1>1, <1>3, <1>4, <1>6, <3>1, <3>2 DEF InLine
      <4>2. (N = 1 <=> N - 1 = 0) /\ (N - 1 # 0 => 1 \in 1..(N - 1)) /\ ~(1 < k)
        BY <1>5, <3>2
      <4> QED BY <2>1, <4>1, <4>2
    <3>3. CASE k # 1
      <4>1. s[1] # x
        BY <1>3, <1>4, <3>1, <3>3 DEF InLine
      <4>2. M.bucket[r] = s[1]
        BY <1>1, <3>1, <4>1
      <4>3. N - 1 # 0 /\ 1 \in 1..(N - 1) /\ 1 < k
        BY <1>5, <3>3
      <4> QED BY <2>1, <4>2, <4>3
    <3> QED BY <3>2, <3>3
  <2> QED BY <1>5, <2>2, <2>3, <2>4, <2>5, <2>6 DEF InLine
<1> HIDE DEF t
<1>9. ASSUME NEW q \in Ranks, NEW T, q # r, Linked(L, q, T), T \cap S = {}
      PROVE  Linked(M, q, T)
  <2>1. PICK K, u : InLine(L, q, T, K, u)
    BY <1>9 DEF Linked
  <2>2. M.bucket[q] = L.bucket[q]
    BY <1>1, <1>6, <1>9
  <2>3. L.prev[x] \in S \cup {NULL} /\ T \subseteq Pages
    BY <1>9 DEF Linked, Joined
  <2>4. \A y \in T : M.next[y] = L.next[y]
    BY <1>1, <1>6, <1>9, <2>3 DEF Store
  <2>5. InLine(M, q, T, K, u)
    BY <2>1, <2>2, <2>4 DEF InLine
  <2> QED BY <1>2, <1>9, <2>5 DEF Linked
<1> QED BY <1>2, <1>8, <1>9 DEF Linked, M

-----------------------------------------------------------------------------
(* The inductive invariant. *)

FreeIn(st, rk, r) == {p \in Pages : st[p] = UNUSED /\ rk[p] = r}

TypInv ==
  /\ rank_num \in 0..MaxRank
  /\ count \in [Ranks -> Int]
  /\ ListsTyped(Lists)
  /\ status \in [Pages -> {UNDEF, UNUSED, USED}]
  /\ rank \in [Pages -> 0..MaxRank]
  /\ index \in [Pages -> Nat]
  /\ pc \in {"idle", "split", "merge"}
  /\ want \in 0..MaxRank /\ at \in 0..MaxRank /\ block \in Nat

\* A page with a status is the first of the block its list_t describes.
BlockInv ==
  \A p \in Pages : status[p] # UNDEF =>
    IsBlock(rank_num, index[p], rank[p]) /\ PageOf(rank_num, index[p], rank[p]) = p

CallInv ==
  /\ pc = "split" => /\ want \in 1..rank_num /\ at \in want..rank_num
                     /\ bucket[at] # NULL
  /\ pc = "merge" => /\ IsBlock(rank_num, block, at)
                     /\ status[PageOf(rank_num, block, at)] # UNUSED

ListInv == \A r \in 1..rank_num : Linked(Lists, r, FreeIn(status, rank, r))

CountInv == \A r \in Ranks :
  count[r] = IF r =< rank_num THEN Cardinality(FreeIn(status, rank, r)) ELSE 0

\* The block a call of return_pages holds counts with its new rank.
Returned(p) == pc = "merge" /\ p = PageOf(rank_num, block, at)
Starts == {p \in Pages : status[p] # UNDEF \/ Returned(p)}
Widths == [p \in Pages |-> Width(IF Returned(p) THEN at ELSE rank[p])]
TileInv == rank_num # 0 => Tiles(Starts, Widths, page_num)

IInv == TypInv /\ BlockInv /\ CallInv /\ ListInv /\ CountInv /\ TileInv

\* The free blocks of a rank are no more than there are pages.
LEMMA FreeFinite ==
  ASSUME NEW st, NEW rk, NEW r
  PROVE  IsFiniteSet(FreeIn(st, rk, r)) /\ Cardinality(FreeIn(st, rk, r)) \in 0..Pow2[MaxRank]
<1>1. Pow2[MaxRank] \in Nat \ {0}
  BY SizeAssumption, ShiftAssumption
<1>2. IsFiniteSet(Pages) /\ Cardinality(Pages) = Pow2[MaxRank]
  <2>1. PICK n \in Int : n = Pow2[MaxRank] - 1 /\ n >= 0
    BY <1>1
  <2>2. IsFiniteSet(0..n) /\ Cardinality(0..n) = n + 1
    <3>1. /\ IsFiniteSet(0..n)
          /\ Cardinality(0..n) = IF 0 > n THEN 0 ELSE n - 0 + 1
      BY FS_Interval
    <3> QED BY <2>1, <3>1
  <2>3. Pages = 0..n
    BY <2>1 DEF Pages
  <2> QED BY <1>1, <2>1, <2>2, <2>3
<1>3. FreeIn(st, rk, r) \subseteq Pages
  BY DEF FreeIn
<1> DEFINE F == FreeIn(st, rk, r)
<1>4. IsFiniteSet(F) /\ Cardinality(F) =< Cardinality(Pages)
  BY <1>2, <1>3, FS_Subset
<1>5. Cardinality(F) \in Nat
  BY <1>4, FS_CardinalityType
<1> HIDE DEF F
<1>6. Cardinality(F) \in 0..Pow2[MaxRank]
  BY <1>1, <1>2, <1>4, <1>5
<1> QED BY <1>4, <1>6 DEF F

\* Before init_page the invariant holds.
LEMMA InitInv == Init => IInv
<1> SUFFICES ASSUME Init PROVE IInv
  OBVIOUS
<1>1. MaxRank \in Nat /\ MaxRank >= 1
  BY SizeAssumption
<1>2. TypInv
  BY <1>1 DEF Init, TypInv, Lists, ListsTyped
<1>3. BlockInv /\ CallInv /\ TileInv
  BY DEF Init, BlockInv, CallInv, TileInv
<1>4. ListInv /\ CountInv
  BY <1>1 DEF Init, ListInv, CountInv, Ranks
<1> QED BY <1>2, <1>3, <1>4 DEF IInv

\* What the invariant says of the first block of a list.
LEMMA HeadOfList ==
  ASSUME IInv, NEW r \in 1..rank_num, bucket[r] # NULL
  PROVE  /\ bucket[r] \in FreeIn(status, rank, r)
         /\ bucket[r] \in Pages /\ status[bucket[r]] = UNUSED /\ rank[bucket[r]] = r
         /\ IsBlock(rank_num, index[bucket[r]], r)
         /\ PageOf(rank_num, index[bucket[r]], r) = bucket[r]
<1>1. Linked(Lists, r, FreeIn(status, rank, r))
  BY DEF IInv, ListInv
<1>2. bucket[r] \in FreeIn(status, rank, r)
  BY <1>1 DEF Linked, Joined, Lists
<1>3. bucket[r] \in Pages /\ status[bucket[r]] = UNUSED /\ rank[bucket[r]] = r
  BY <1>2 DEF FreeIn
<1> QED BY <1>2, <1>3 DEF IInv, BlockInv, UNUSED, UNDEF

-----------------------------------------------------------------------------
(* The steps. *)

\* block_to_page of buddy.c, with rank_num as an argument.
LEMMA PageOfBlock == \A b, r : block_to_page(b, r) = PageOf(rank_num, b, r)
BY DEF block_to_page, PageOf, Width

\* The steps that change only the call and the answer, and hold no block.
LEMMA QuietSteps ==
  ASSUME IInv, NEW r, NEW ptr, AllocRefuse(r) \/ ReturnRefuse(ptr)
  PROVE  IInv'
BY DEF IInv, TypInv, BlockInv, CallInv, ListInv, CountInv, TileInv, Lists, Starts,
       Widths, Returned, page_num, AllocRefuse, ReturnRefuse, lists, call

\* alloc_pages has found the first list that is not empty.
LEMMA ScanStep ==
  ASSUME IInv, NEW r, AllocScan(r)
  PROVE  IInv'
<1>1. PICK u \in r..rank_num : bucket[u] # NULL /\ Begin("split", r, u, 0)
  BY DEF AllocScan
<1>2. r \in 1..rank_num /\ rank_num \in 0..MaxRank /\ pc = "idle"
      /\ UNCHANGED <<rank_num, count, lists, status, rank, index>>
  BY DEF AllocScan, IInv, TypInv
<1>3. pc' = "split" /\ want' = r /\ at' = u /\ block' = 0
  BY <1>1 DEF Begin
<1>4. want' \in 0..MaxRank /\ at' \in 0..MaxRank /\ u \in 1..MaxRank
  BY <1>1, <1>2, <1>3, SizeAssumption
<1>5. TypInv'
  BY <1>2, <1>3, <1>4 DEF IInv, TypInv, lists, Lists, ListsTyped
<1>6. CallInv'
  BY <1>1, <1>2, <1>3 DEF CallInv, lists
<1>7. BlockInv' /\ ListInv' /\ CountInv'
  BY <1>2 DEF IInv, BlockInv, ListInv, CountInv, Lists, lists
<1>8. TileInv'
  BY <1>2, <1>3 DEF IInv, TileInv, Starts, Widths, Returned, page_num
<1> QED BY <1>5, <1>6, <1>7, <1>8 DEF IInv

\* A valid pointer leads into the array of list_t.
LEMMA PtrInPages ==
  ASSUME TypInv, rank_num # 0, NEW ptr \in Int, is_valid_ptr(ptr)
  PROVE  ptr_to_page(ptr) \in Pages
<1>1. rank_num \in 1..MaxRank /\ rank_num - 1 \in 0..MaxRank /\ rank_num - 1 < MaxRank
      /\ (rank_num - 1) + 1 = rank_num /\ MaxRank \in rank_num..MaxRank
      /\ rank_num \in 0..MaxRank
  BY SizeAssumption DEF TypInv
<1>2. Pow2[rank_num] = 2 * Pow2[rank_num - 1] /\ Pow2[rank_num - 1] >= 1
      /\ Pow2[rank_num - 1] \in Nat
  BY <1>1, Doubling
<1>3. Pow2[rank_num] =< Pow2[MaxRank] /\ Pow2[MaxRank] \in Nat
  BY <1>1, Powers
<1>4. ptr >= 0 /\ ptr \div PageSize =< Pow2[rank_num - 1]
  BY DEF is_valid_ptr, page_num
<1>5. ptr \div PageSize \in Nat
  BY <1>4, SizeAssumption
<1> QED BY <1>2, <1>3, <1>4, <1>5 DEF ptr_to_page, Pages

\* return_pages holds the block it was given.
LEMMA BeginStep ==
  ASSUME IInv, NEW ptr \in Int, ReturnBegin(ptr)
  PROVE  IInv'
<1>1. PICK p \in Pages : p = ptr_to_page(ptr)
  BY PtrInPages DEF IInv, ReturnBegin, IsAllocated
<1>2. /\ status[p] = USED /\ pc = "idle" /\ rank_num # 0
      /\ pc' = "merge" /\ want' = 0 /\ at' = rank[p] /\ block' = index[p]
      /\ UNCHANGED <<rank_num, count, lists, status, rank, index>>
  BY <1>1 DEF ReturnBegin, IsAllocated, Begin
<1>3. IsBlock(rank_num, index[p], rank[p]) /\ PageOf(rank_num, index[p], rank[p]) = p
  BY <1>2 DEF IInv, BlockInv, USED, UNDEF
<1>4. TypInv'
  BY <1>2, SizeAssumption DEF IInv, TypInv, lists, Lists, ListsTyped
<1>5. CallInv'
  BY <1>2, <1>3 DEF CallInv, USED, UNUSED
<1>6. BlockInv' /\ ListInv' /\ CountInv'
  BY <1>2 DEF IInv, BlockInv, ListInv, CountInv, Lists, lists
<1>7. \A q \in Pages : Returned(q)' <=> q = p
  BY <1>2, <1>3 DEF Returned
<1>8. Starts' = Starts
  BY <1>2, <1>7 DEF Starts, Returned, USED, UNDEF
<1>9. Widths' = Widths
  <2>1. \A q \in Pages : Widths'[q] = Widths[q]
    BY <1>2, <1>7 DEF Widths, Returned, Width
  <2> QED BY <2>1 DEF Widths
<1>10. TileInv'
  BY <1>2, <1>8, <1>9 DEF IInv, TileInv, page_num
<1> QED BY <1>4, <1>5, <1>6, <1>10 DEF IInv

\* A turn of the split loop of alloc_pages.
LEMMA SplitStep ==
  ASSUME IInv, Split
  PROVE  IInv'
<1>1. PICK n \in Ranks, a \in Ranks, m \in Pages :
        n = rank_num /\ a = at /\ m = bucket[at]
  <2>1. rank_num \in 0..MaxRank /\ at \in want..rank_num /\ want \in 1..rank_num
        /\ bucket[at] # NULL
    BY DEF IInv, TypInv, CallInv, Split
  <2>2. at \in 1..rank_num /\ rank_num \in Ranks /\ at \in Ranks
    BY <2>1, SizeAssumption DEF Ranks
  <2> QED BY <2>1, <2>2, HeadOfList
<1> DEFINE r == a - 1
           lb == CHILD(index[m], 0)
           rb == CHILD(index[m], 1)
           q  == m + Width(r)
           S  == FreeIn(status, rank, a)
           T  == FreeIn(status, rank, r)
           L1 == list_pop(Lists, a)
           L2 == list_push(L1, r, q)
           L3 == list_push(L2, r, m)
<1>2. /\ want \in 1..n /\ a \in 1..n /\ r \in 1..n /\ r \in Ranks /\ r \in want..n
      /\ a \in Int /\ r # a /\ a > 1 /\ pc = "split"
  BY <1>1, SizeAssumption DEF IInv, TypInv, CallInv, Split, Ranks
<1>3. /\ m \in S /\ status[m] = UNUSED /\ rank[m] = a
      /\ IsBlock(n, index[m], a) /\ PageOf(n, index[m], a) = m
      /\ bucket[a] = m /\ m # NULL
  BY <1>1, <1>2, HeadOfList, NoPage
<1>4. /\ IsBlock(n, lb, r) /\ PageOf(n, lb, r) = m
      /\ IsBlock(n, rb, r) /\ PageOf(n, rb, r) = q
      /\ Width(a) = 2 * Width(r)
  BY <1>2, <1>3, Halves
<1>5. q \in Pages /\ m \in Nat /\ Width(r) \in Nat /\ Width(r) >= 1 /\ q # m
  <2>1. r - 1 \in 0..MaxRank
    BY <1>2, SizeAssumption DEF Ranks
  <2>2. Width(r) \in Nat \ {0}
    BY <2>1, ShiftAssumption DEF Width
  <2> QED BY <1>4, <2>2, BlockInPool DEF Pages
<1>6. Tiles(Starts, Widths, page_num) /\ m \in Starts /\ Widths[m] = 2 * Width(r)
      /\ page_num \in Nat
  <2>1. rank_num # 0 /\ n - 1 \in 0..MaxRank
    BY <1>1, SizeAssumption DEF Ranks
  <2>2. Pow2[n - 1] \in Nat \ {0}
    BY <2>1, ShiftAssumption
  <2> QED BY <1>1, <1>2, <1>3, <1>4, <2>1, <2>2
          DEF IInv, TileInv, Starts, Widths, Returned, UNUSED, UNDEF, page_num
<1>7. q \notin Starts /\ status[q] = UNDEF
  <2>1. q \notin Starts
    BY <1>5, <1>6, TilesInside
  <2> QED BY <1>5, <2>1 DEF Starts
<1>8. /\ status' = [status EXCEPT ![m] = UNDEF, ![q] = UNUSED, ![m] = UNUSED]
      /\ rank' = [rank EXCEPT ![q] = r, ![m] = r]
      /\ index' = [index EXCEPT ![q] = rb, ![m] = lb]
      /\ SetLists(L3)
      /\ count' = [count EXCEPT ![a] = @ - 1, ![r] = @ + 2]
      /\ at' = r
      /\ UNCHANGED <<rank_num, pc, want, block>>
  <2>1. block_to_page(rb, r) = q /\ block_to_page(lb, r) = m
    BY <1>1, <1>4, PageOfBlock
  <2> HIDE DEF q, lb, rb
  <2>2. /\ status' = [status EXCEPT ![m] = UNDEF, ![block_to_page(rb, r)] = UNUSED,
                                    ![block_to_page(lb, r)] = UNUSED]
        /\ rank' = [rank EXCEPT ![block_to_page(rb, r)] = r, ![block_to_page(lb, r)] = r]
        /\ index' = [index EXCEPT ![block_to_page(rb, r)] = rb, ![block_to_page(lb, r)] = lb]
    BY <1>1 DEF Split, lb, rb
  <2>3. SetLists(list_push(list_push(list_pop(Lists, a), r, block_to_page(rb, r)), r,
                           block_to_page(lb, r)))
    BY <1>1 DEF Split, lb, rb
  <2>4. /\ count' = [count EXCEPT ![a] = @ - 1, ![r] = @ + 2]
        /\ at' = r
        /\ UNCHANGED <<rank_num, pc, want, block>>
    BY <1>1 DEF Split
  <2>5. /\ status' = [status EXCEPT ![m] = UNDEF, ![q] = UNUSED, ![m] = UNUSED]
        /\ rank' = [rank EXCEPT ![q] = r, ![m] = r]
        /\ index' = [index EXCEPT ![q] = rb, ![m] = lb]
    BY <2>1, <2>2
  <2>6. SetLists(L3)
    BY <2>1, <2>3
  <2> QED BY <2>4, <2>5, <2>6
<1> HIDE DEF r, lb, rb, q
<1>9. /\ status \in [Pages -> {UNDEF, UNUSED, USED}] /\ rank \in [Pages -> 0..MaxRank]
      /\ index \in [Pages -> Nat] /\ count \in [Ranks -> Int]
  BY DEF IInv, TypInv
<1>10. \A p \in Pages :
         /\ status'[p] = IF p \in {m, q} THEN UNUSED ELSE status[p]
         /\ rank'[p] = IF p \in {m, q} THEN r ELSE rank[p]
         /\ index'[p] = IF p = m THEN lb ELSE IF p = q THEN rb ELSE index[p]
  BY <1>5, <1>8, <1>9
<1>11. /\ FreeIn(status', rank', a) = S \ {m}
       /\ FreeIn(status', rank', r) = (T \cup {q}) \cup {m}
       /\ \A k : k # a /\ k # r => FreeIn(status', rank', k) = FreeIn(status, rank, k)
       /\ m \notin T /\ q \notin T /\ q \notin S
  <2>1. \A k : \A p : p \in FreeIn(status', rank', k) <=>
          p \in Pages /\ IF p \in {m, q} THEN r = k ELSE p \in FreeIn(status, rank, k)
    BY <1>10 DEF FreeIn
  <2>2. /\ \A k : k # a => m \notin FreeIn(status, rank, k)
        /\ \A k : q \notin FreeIn(status, rank, k)
    BY <1>3, <1>7 DEF FreeIn, UNUSED, UNDEF
  <2>3. \A k : FreeIn(status, rank, k) \subseteq Pages
    BY DEF FreeIn
  <2>4. FreeIn(status', rank', a) = S \ {m}
    BY <1>2, <1>3, <2>1, <2>2, <2>3
  <2>5. FreeIn(status', rank', r) = (T \cup {q}) \cup {m}
    BY <1>2, <1>5, <2>1, <2>2, <2>3
  <2>6. ASSUME NEW k, k # a, k # r
        PROVE  FreeIn(status', rank', k) = FreeIn(status, rank, k)
    BY <2>1, <2>2, <2>3, <2>6
  <2> QED BY <1>2, <2>2, <2>4, <2>5, <2>6
<1>12. /\ ListsTyped(Lists) /\ Linked(Lists, a, S) /\ Linked(Lists, r, T)
       /\ Lists.bucket[a] = m
       /\ \A k, l \in Ranks : k # l => FreeIn(status, rank, k) \cap FreeIn(status, rank, l) = {}
       /\ \A k \in 1..n : Linked(Lists, k, FreeIn(status, rank, k))
  BY <1>1, <1>2, <1>3 DEF IInv, TypInv, ListInv, Lists, FreeIn
<1>13. /\ ListsTyped(L1) /\ Linked(L1, a, S \ {m})
       /\ \A k \in Ranks : k # a /\ k \in 1..n => Linked(L1, k, FreeIn(status, rank, k))
  BY <1>3, <1>12, PopLinks
<1>14. /\ ListsTyped(L2) /\ Linked(L2, r, T \cup {q}) /\ Linked(L2, a, S \ {m})
       /\ \A k \in Ranks : k # a /\ k # r /\ k \in 1..n
            => Linked(L2, k, FreeIn(status, rank, k))
  <2>1. Linked(L1, r, T)
    BY <1>2, <1>13
  <2>2. (S \ {m}) \cap (T \cup {q}) = {}
    BY <1>2, <1>11, <1>12
  <2>3. \A k \in Ranks : k # r => FreeIn(status, rank, k) \cap (T \cup {q}) = {}
    BY <1>2, <1>7, <1>12 DEF FreeIn, UNUSED, UNDEF
  <2>4. /\ ListsTyped(L2) /\ Linked(L2, r, T \cup {q})
        /\ \A k \in Ranks : \A X : k # r /\ Linked(L1, k, X) /\ X \cap (T \cup {q}) = {}
             => Linked(L2, k, X)
    BY <1>2, <1>5, <1>11, <1>13, <2>1, PushLinks
  <2> HIDE DEF L1, L2
  <2> QED BY <1>2, <1>13, <2>2, <2>3, <2>4
<1>15. /\ ListsTyped(L3) /\ Linked(L3, r, (T \cup {q}) \cup {m}) /\ Linked(L3, a, S \ {m})
       /\ \A k \in Ranks : k # a /\ k # r /\ k \in 1..n
            => Linked(L3, k, FreeIn(status, rank, k))
       /\ L3.bucket[r] = m
  <2>1. m \notin T \cup {q} /\ (S \ {m}) \cap ((T \cup {q}) \cup {m}) = {}
    BY <1>2, <1>5, <1>11, <1>12
  <2>2. \A k \in Ranks : k # r /\ k # a =>
          FreeIn(status, rank, k) \cap ((T \cup {q}) \cup {m}) = {}
    BY <1>2, <1>3, <1>7, <1>12 DEF FreeIn, UNUSED, UNDEF
  <2>3. /\ ListsTyped(L3) /\ Linked(L3, r, (T \cup {q}) \cup {m}) /\ L3.bucket[r] = m
        /\ \A k \in Ranks : \A X : k # r /\ Linked(L2, k, X) /\ X \cap ((T \cup {q}) \cup {m}) = {}
             => Linked(L3, k, X)
    BY <1>2, <1>14, <2>1, PushLinks
  <2> HIDE DEF L2, L3
  <2> QED BY <1>2, <1>14, <2>1, <2>2, <2>3
<1>16. Lists' = L3
  BY <1>8 DEF SetLists, Lists, list_push
<1> HIDE DEF L1, L2, L3
<1>17. TypInv'
  <2>1. /\ rank' \in [Pages -> 0..MaxRank] /\ status' \in [Pages -> {UNDEF, UNUSED, USED}]
        /\ index' \in [Pages -> Nat] /\ count' \in [Ranks -> Int]
    <3>1. r \in 0..MaxRank /\ lb \in Nat /\ rb \in Nat
      BY <1>2, <1>4, SizeAssumption DEF Ranks, IsBlock
    <3>2. rank' \in [Pages -> 0..MaxRank]
      BY <1>8, <1>9, <3>1
    <3>3. status' \in [Pages -> {UNDEF, UNUSED, USED}]
      BY <1>8, <1>9
    <3>4. index' \in [Pages -> Nat]
      BY <1>8, <1>9, <3>1
    <3>5. count' \in [Ranks -> Int]
      BY <1>2, <1>8, <1>9
    <3> QED BY <3>2, <3>3, <3>4, <3>5
  <2>2. at' \in 0..MaxRank /\ pc' = pc /\ want' = want /\ block' = block /\ rank_num' = rank_num
    BY <1>2, <1>8 DEF Ranks
  <2> QED BY <1>15, <1>16, <2>1, <2>2 DEF IInv, TypInv
<1>18. BlockInv'
  <2> SUFFICES ASSUME NEW p \in Pages, status'[p] # UNDEF
               PROVE  IsBlock(n, index'[p], rank'[p]) /\ PageOf(n, index'[p], rank'[p]) = p
    BY <1>1, <1>8 DEF BlockInv
  <2>1. CASE p \in {m, q}
    BY <1>4, <1>5, <1>10, <2>1
  <2>2. CASE p \notin {m, q}
    BY <1>1, <1>10, <2>2 DEF IInv, BlockInv
  <2> QED BY <2>1, <2>2
<1>19. CallInv'
  <2>1. bucket'[r] # NULL
    BY <1>3, <1>15, <1>16 DEF Lists
  <2> QED BY <1>1, <1>2, <1>8, <2>1 DEF CallInv
<1>20. ListInv'
  <2> SUFFICES ASSUME NEW k \in 1..n PROVE Linked(L3, k, FreeIn(status', rank', k))
    BY <1>1, <1>8, <1>16 DEF ListInv
  <2>1. k \in Ranks
    BY <1>1, SizeAssumption DEF Ranks
  <2> QED BY <1>11, <1>15, <2>1
<1>21. CountInv'
  <2> SUFFICES ASSUME NEW k \in Ranks
               PROVE count'[k] = IF k =< n THEN Cardinality(FreeIn(status', rank', k)) ELSE 0
    BY <1>1, <1>8 DEF CountInv
  <2>1. count[k] = IF k =< n THEN Cardinality(FreeIn(status, rank, k)) ELSE 0
    BY <1>1 DEF IInv, CountInv
  <2>0. count'[k] = IF k = a THEN count[a] - 1 ELSE IF k = r THEN count[r] + 2 ELSE count[k]
    BY <1>2, <1>8, <1>9
  <2>2. CASE k = a
    <3>1. Cardinality(S \ {m}) = Cardinality(S) - 1
      BY <1>3, FreeFinite, FS_RemoveElement
    <3>2. k =< n /\ count'[k] = count[k] - 1
      BY <1>2, <2>0, <2>2
    <3> QED BY <1>11, <2>1, <2>2, <3>1, <3>2
  <2>3. CASE k = r
    <3>1. Cardinality(T \cup {q}) = Cardinality(T) + 1 /\ IsFiniteSet(T \cup {q})
      BY <1>11, FreeFinite, FS_AddElement
    <3>2. m \notin T \cup {q}
      BY <1>5, <1>11
    <3>3. Cardinality((T \cup {q}) \cup {m}) = Cardinality(T \cup {q}) + 1
      BY <3>1, <3>2, FS_AddElement
    <3>4. Cardinality(T) \in Int
      BY FreeFinite
    <3>5. k =< n /\ count'[k] = count[k] + 2
      BY <1>2, <2>0, <2>3
    <3> QED BY <1>11, <2>1, <2>3, <3>1, <3>3, <3>4, <3>5
  <2>4. CASE k # a /\ k # r
    BY <1>11, <2>0, <2>1, <2>4
  <2> QED BY <2>2, <2>3, <2>4
<1>22. TileInv'
  <2>0. pc = "split" /\ pc' = "split"
    BY <1>2, <1>8
  <2>1. Starts' = Starts \cup {q}
    <3>1. Starts' = {p \in Pages : status'[p] # UNDEF} /\ Starts = {p \in Pages : status[p] # UNDEF}
      BY <2>0 DEF Starts, Returned
    <3>2. \A p \in Pages : status'[p] # UNDEF <=> (status[p] # UNDEF \/ p = q)
      BY <1>3, <1>10 DEF UNUSED, UNDEF
    <3> QED BY <1>5, <3>1, <3>2
  <2>2. \A p \in Pages : Widths'[p] = IF p \in {m, q} THEN Width(r) ELSE Widths[p]
    <3>1. \A p \in Pages : Widths'[p] = Width(rank'[p]) /\ Widths[p] = Width(rank[p])
      BY <2>0 DEF Widths, Returned, Width
    <3> QED BY <1>10, <3>1
  <2>3. \A p \in Starts : p \in Pages
    BY DEF Starts
  <2>4. Tiles(Starts \cup {m + Width(r)}, Widths', page_num)
    BY <1>5, <1>6, <1>7, <2>2, <2>3, TilesSplit DEF q
  <2> QED BY <1>8, <2>1, <2>4 DEF TileInv, page_num, q
<1> QED BY <1>17, <1>18, <1>19, <1>20, <1>21, <1>22 DEF IInv

\* The end of alloc_pages: list_pop takes the first block.
LEMMA TakeStep ==
  ASSUME IInv, Take
  PROVE  IInv'
<1>1. PICK a \in Ranks, m \in Pages : a = want /\ a = at /\ m = bucket[at] /\ a \in 1..rank_num
  <2>1. at = want /\ want \in 1..rank_num /\ bucket[at] # NULL /\ rank_num \in 0..MaxRank
    BY DEF IInv, TypInv, CallInv, Take
  <2>2. at \in Ranks
    BY <2>1, SizeAssumption DEF Ranks
  <2> QED BY <2>1, <2>2, HeadOfList
<1> DEFINE S == FreeIn(status, rank, a)
           L1 == list_pop(Lists, a)
<1>2. /\ m \in S /\ status[m] = UNUSED /\ rank[m] = a /\ bucket[a] = m /\ m # NULL
      /\ pc = "split"
  BY <1>1, HeadOfList, NoPage DEF Take
<1>3. /\ SetLists(L1)
      /\ status' = [status EXCEPT ![m] = USED]
      /\ count' = [count EXCEPT ![a] = @ - 1]
      /\ pc' = "idle" /\ want' = 0 /\ at' = 0 /\ block' = 0
      /\ UNCHANGED <<rank_num, rank, index>>
  BY <1>1 DEF Take, End, Begin
<1>4. /\ status \in [Pages -> {UNDEF, UNUSED, USED}] /\ rank \in [Pages -> 0..MaxRank]
      /\ index \in [Pages -> Nat] /\ count \in [Ranks -> Int] /\ rank_num \in 0..MaxRank
  BY DEF IInv, TypInv
<1>5. \A p \in Pages : status'[p] = IF p = m THEN USED ELSE status[p]
  BY <1>3, <1>4
<1>6. FreeIn(status', rank, a) = S \ {m}
      /\ \A k : k # a => FreeIn(status', rank, k) = FreeIn(status, rank, k)
  <2>1. \A k : \A p : p \in FreeIn(status', rank, k) <=> p # m /\ p \in FreeIn(status, rank, k)
    BY <1>5 DEF FreeIn, USED, UNUSED
  <2>2. \A k : k # a => m \notin FreeIn(status, rank, k)
    BY <1>2 DEF FreeIn
  <2> QED BY <2>1, <2>2
<1>7. /\ ListsTyped(L1) /\ Linked(L1, a, S \ {m})
      /\ \A k \in Ranks : k # a /\ k \in 1..rank_num => Linked(L1, k, FreeIn(status, rank, k))
  <2>1. /\ ListsTyped(Lists) /\ Lists.bucket[a] = m
        /\ \A k \in 1..rank_num : Linked(Lists, k, FreeIn(status, rank, k))
        /\ \A k \in Ranks : k # a => FreeIn(status, rank, k) \cap S = {}
    BY <1>2 DEF IInv, TypInv, ListInv, Lists, FreeIn
  <2> QED BY <1>1, <1>2, <2>1, PopLinks
<1>8. Lists' = L1
  BY <1>3 DEF SetLists, Lists, list_pop
<1> HIDE DEF L1
<1>9. TypInv'
  <2>1. status' \in [Pages -> {UNDEF, UNUSED, USED}] /\ count' \in [Ranks -> Int]
    BY <1>1, <1>3, <1>4
  <2>2. 0 \in 0..MaxRank
    BY SizeAssumption
  <2> QED BY <1>3, <1>4, <1>7, <1>8, <2>1, <2>2 DEF TypInv
<1>10. BlockInv'
  BY <1>2, <1>3, <1>5 DEF IInv, BlockInv, UNUSED, UNDEF
<1>11. CallInv'
  BY <1>3 DEF CallInv
<1>12. ListInv'
  <2> SUFFICES ASSUME NEW k \in 1..rank_num PROVE Linked(L1, k, FreeIn(status', rank, k))
    BY <1>3, <1>8 DEF ListInv
  <2>1. k \in Ranks
    BY <1>4, SizeAssumption DEF Ranks
  <2> QED BY <1>6, <1>7, <2>1
<1>13. CountInv'
  <2> SUFFICES ASSUME NEW k \in Ranks
               PROVE count'[k] = IF k =< rank_num THEN Cardinality(FreeIn(status', rank, k)) ELSE 0
    BY <1>3 DEF CountInv
  <2>1. count[k] = IF k =< rank_num THEN Cardinality(FreeIn(status, rank, k)) ELSE 0
    BY DEF IInv, CountInv
  <2>2. count'[k] = IF k = a THEN count[a] - 1 ELSE count[k]
    BY <1>1, <1>3, <1>4
  <2>3. Cardinality(S \ {m}) = Cardinality(S) - 1
    BY <1>2, FreeFinite, FS_RemoveElement
  <2>4. k = a => k =< rank_num
    BY <1>1
  <2> QED BY <1>6, <2>1, <2>2, <2>3, <2>4
<1>14. TileInv'
  <2>1. \A p \in Pages : ~Returned(p) /\ ~Returned(p)'
    BY <1>2, <1>3 DEF Returned
  <2>2. Starts' = Starts
    BY <1>2, <1>5, <2>1 DEF Starts, UNUSED, USED, UNDEF
  <2>3. Widths' = Widths
    <3>1. Widths = [p \in Pages |-> Width(rank[p])]
      BY <2>1 DEF Widths
    <3>2. Widths' = [p \in Pages |-> Width(rank[p])]
      BY <1>3, <2>1 DEF Widths, Width
    <3> QED BY <3>1, <3>2
  <2> QED BY <1>3, <2>2, <2>3 DEF IInv, TileInv, page_num
<1> QED BY <1>9, <1>10, <1>11, <1>12, <1>13, <1>14 DEF IInv

\* What the invariant says of the block that return_pages holds.
LEMMA HeldBlock ==
  ASSUME IInv, pc = "merge"
  PROVE  \E n, a \in Ranks, b \in Nat, m \in Pages :
           /\ n = rank_num /\ a = at /\ b = block /\ m = block_to_page(block, at)
           /\ m = PageOf(n, b, a) /\ IsBlock(n, b, a) /\ a \in 1..n
           /\ Width(a) \in Nat /\ Width(a) >= 1
           /\ status[m] # UNUSED /\ m \in Starts /\ Widths[m] = Width(a)
           /\ page_num \in Nat /\ Tiles(Starts, Widths, page_num)
           /\ \A p \in Pages : Returned(p) <=> p = m
<1>1. IsBlock(rank_num, block, at) /\ status[PageOf(rank_num, block, at)] # UNUSED
  BY DEF IInv, CallInv
<1>2. rank_num \in Ranks /\ at \in Ranks /\ block \in Nat /\ at \in 1..rank_num
      /\ rank_num # 0 /\ at - 1 \in 0..MaxRank /\ rank_num - 1 \in 0..MaxRank
  BY <1>1, SizeAssumption DEF IInv, TypInv, IsBlock, Ranks
<1>3. PageOf(rank_num, block, at) \in Pages
  BY <1>1, <1>2, BlockInPool
<1>4. Width(at) \in Nat \ {0} /\ page_num \in Nat \ {0}
  BY <1>2, ShiftAssumption DEF Width, page_num
<1>5. \A p \in Pages : Returned(p) <=> p = PageOf(rank_num, block, at)
  BY DEF Returned
<1>6. PageOf(rank_num, block, at) \in Starts /\ Widths[PageOf(rank_num, block, at)] = Width(at)
  BY <1>3, <1>5 DEF Starts, Widths
<1>7. Tiles(Starts, Widths, page_num)
  BY <1>2 DEF IInv, TileInv
<1>8. Width(at) \in Nat /\ Width(at) >= 1 /\ page_num \in Nat
  BY <1>4
<1> QED BY <1>1, <1>2, <1>3, <1>5, <1>6, <1>7, <1>8, PageOfBlock

\* The end of return_pages: list_push puts back what was merged.
LEMMA PutStep ==
  ASSUME IInv, Put
  PROVE  IInv'
<1>1. PICK n \in Ranks, a \in Ranks, b \in Nat, m \in Pages :
           /\ n = rank_num /\ a = at /\ b = block /\ m = block_to_page(block, at)
           /\ m = PageOf(n, b, a) /\ IsBlock(n, b, a) /\ a \in 1..n
           /\ Width(a) \in Nat /\ Width(a) >= 1
           /\ status[m] # UNUSED /\ m \in Starts /\ Widths[m] = Width(a)
           /\ page_num \in Nat /\ Tiles(Starts, Widths, page_num)
           /\ \A p \in Pages : Returned(p) <=> p = m
  BY HeldBlock DEF Put
<1> DEFINE S == FreeIn(status, rank, a)
           L1 == list_push(Lists, a, m)
<1>2. /\ SetLists(L1)
      /\ status' = [status EXCEPT ![m] = UNUSED]
      /\ rank' = [rank EXCEPT ![m] = a]
      /\ index' = [index EXCEPT ![m] = b]
      /\ count' = [count EXCEPT ![a] = @ + 1]
      /\ pc' = "idle" /\ want' = 0 /\ at' = 0 /\ block' = 0
      /\ rank_num' = rank_num
  BY <1>1 DEF Put, End, Begin
<1>3. /\ status \in [Pages -> {UNDEF, UNUSED, USED}] /\ rank \in [Pages -> 0..MaxRank]
      /\ index \in [Pages -> Nat] /\ count \in [Ranks -> Int] /\ rank_num \in 0..MaxRank
  BY DEF IInv, TypInv
<1>4. \A p \in Pages :
        /\ status'[p] = IF p = m THEN UNUSED ELSE status[p]
        /\ rank'[p] = IF p = m THEN a ELSE rank[p]
        /\ index'[p] = IF p = m THEN b ELSE index[p]
  BY <1>2, <1>3
<1>5. /\ FreeIn(status', rank', a) = S \cup {m}
      /\ \A k : k # a => FreeIn(status', rank', k) = FreeIn(status, rank, k)
      /\ \A k : m \notin FreeIn(status, rank, k)
  <2>1. \A k : m \notin FreeIn(status, rank, k)
    BY <1>1 DEF FreeIn
  <2>2. \A k : \A p : p \in FreeIn(status', rank', k) <=>
          (p = m /\ k = a) \/ p \in FreeIn(status, rank, k)
    BY <1>1, <1>4, <2>1 DEF FreeIn
  <2> QED BY <2>1, <2>2
<1>6. /\ ListsTyped(L1) /\ Linked(L1, a, S \cup {m})
      /\ \A k \in Ranks : k # a /\ k \in 1..rank_num => Linked(L1, k, FreeIn(status, rank, k))
  <2>1. /\ ListsTyped(Lists)
        /\ \A k \in 1..rank_num : Linked(Lists, k, FreeIn(status, rank, k))
    BY DEF IInv, TypInv, ListInv
  <2>2. \A k \in Ranks : k # a => FreeIn(status, rank, k) \cap (S \cup {m}) = {}
    BY <1>5 DEF FreeIn
  <2>3. /\ ListsTyped(L1) /\ Linked(L1, a, S \cup {m})
        /\ \A k \in Ranks : \A X : k # a /\ Linked(Lists, k, X) /\ X \cap (S \cup {m}) = {}
             => Linked(L1, k, X)
    BY <1>1, <1>5, <2>1, PushLinks
  <2> HIDE DEF L1
  <2> QED BY <2>1, <2>2, <2>3
<1>7. Lists' = L1
  BY <1>2 DEF SetLists, Lists, list_push
<1> HIDE DEF L1
<1>8. TypInv'
  <2>1. a \in 0..MaxRank /\ 0 \in 0..MaxRank
    BY SizeAssumption DEF Ranks
  <2>2. status' \in [Pages -> {UNDEF, UNUSED, USED}] /\ count' \in [Ranks -> Int]
        /\ rank' \in [Pages -> 0..MaxRank] /\ index' \in [Pages -> Nat]
    BY <1>1, <1>2, <1>3, <2>1
  <2> QED BY <1>2, <1>3, <1>6, <1>7, <2>1, <2>2 DEF TypInv
<1>9. BlockInv'
  <2> SUFFICES ASSUME NEW p \in Pages, status'[p] # UNDEF
               PROVE  IsBlock(n, index'[p], rank'[p]) /\ PageOf(n, index'[p], rank'[p]) = p
    BY <1>1, <1>2 DEF BlockInv
  <2>1. CASE p = m
    BY <1>1, <1>4, <2>1
  <2>2. CASE p # m
    BY <1>1, <1>4, <2>2 DEF IInv, BlockInv
  <2> QED BY <2>1, <2>2
<1>10. CallInv'
  BY <1>2 DEF CallInv
<1>11. ListInv'
  <2> SUFFICES ASSUME NEW k \in 1..rank_num PROVE Linked(L1, k, FreeIn(status', rank', k))
    BY <1>2, <1>7 DEF ListInv
  <2>1. k \in Ranks
    BY <1>3, SizeAssumption DEF Ranks
  <2> QED BY <1>5, <1>6, <2>1
<1>12. CountInv'
  <2> SUFFICES ASSUME NEW k \in Ranks
               PROVE count'[k] = IF k =< rank_num THEN Cardinality(FreeIn(status', rank', k)) ELSE 0
    BY <1>2 DEF CountInv
  <2>1. count[k] = IF k =< rank_num THEN Cardinality(FreeIn(status, rank, k)) ELSE 0
    BY DEF IInv, CountInv
  <2>2. count'[k] = IF k = a THEN count[a] + 1 ELSE count[k]
    BY <1>1, <1>2, <1>3
  <2>3. Cardinality(S \cup {m}) = Cardinality(S) + 1
    BY <1>5, FreeFinite, FS_AddElement
  <2>4. k = a => k =< rank_num
    BY <1>1
  <2> QED BY <1>5, <2>1, <2>2, <2>3, <2>4
<1>13. TileInv'
  <2>1. \A p \in Pages : ~Returned(p)'
    BY <1>2 DEF Returned
  <2>2. Starts' = Starts
    <3>1. Starts' = {p \in Pages : status'[p] # UNDEF}
      BY <2>1 DEF Starts
    <3>2. Starts = {p \in Pages : status[p] # UNDEF \/ p = m}
      BY <1>1 DEF Starts
    <3> QED BY <1>4, <3>1, <3>2 DEF UNUSED, UNDEF
  <2>3. \A p \in Starts : Widths'[p] = Widths[p]
    <3>1. \A p \in Pages : Widths'[p] = Width(rank'[p])
      BY <2>1 DEF Widths, Width
    <3>2. \A p \in Pages : Widths[p] = Width(IF p = m THEN a ELSE rank[p])
      BY <1>1 DEF Widths
    <3>3. Starts \subseteq Pages
      BY DEF Starts
    <3> QED BY <1>4, <3>1, <3>2, <3>3
  <2>4. Tiles(Starts, Widths', page_num)
    BY <1>1, <2>3, TilesSame
  <2> QED BY <1>2, <2>2, <2>4 DEF TileInv, page_num
<1> QED BY <1>8, <1>9, <1>10, <1>11, <1>12, <1>13 DEF IInv

\* A turn of the merge loop of return_pages.
LEMMA MergeStep ==
  ASSUME IInv, Merge
  PROVE  IInv'
<1>1. PICK n \in Ranks, a \in Ranks, b \in Nat, m \in Pages :
           /\ n = rank_num /\ a = at /\ b = block /\ m = block_to_page(block, at)
           /\ m = PageOf(n, b, a) /\ IsBlock(n, b, a) /\ a \in 1..n
           /\ Width(a) \in Nat /\ Width(a) >= 1
           /\ status[m] # UNUSED /\ m \in Starts /\ Widths[m] = Width(a)
           /\ page_num \in Nat /\ Tiles(Starts, Widths, page_num)
           /\ \A p \in Pages : Returned(p) <=> p = m
  BY HeldBlock DEF Merge
<1> DEFINE w == Width(a)
<1>2. a < n /\ a + 1 \in 1..n /\ a + 1 \in 0..MaxRank /\ a # a + 1
  BY <1>1, SizeAssumption DEF Merge, Merges, Ranks
<1>3. PICK d \in Pages, e \in Pages :
        /\ d = PageOf(n, BUDDY(b), a) /\ e = PageOf(n, PARENT(b), a + 1)
        /\ IsBlock(n, PARENT(b), a + 1) /\ Width(a + 1) = 2 * w
        /\ (d = m + w /\ e = m) \/ (m = d + w /\ e = d)
  <2>1. /\ IsBlock(n, BUDDY(b), a) /\ IsBlock(n, PARENT(b), a + 1)
        /\ Width(a + 1) = 2 * Width(a)
        /\ \/ /\ PageOf(n, BUDDY(b), a) = m + Width(a)
              /\ PageOf(n, PARENT(b), a + 1) = m
           \/ /\ m = PageOf(n, BUDDY(b), a) + Width(a)
              /\ PageOf(n, PARENT(b), a + 1) = PageOf(n, BUDDY(b), a)
    BY <1>1, <1>2, Buddies
  <2>2. PageOf(n, BUDDY(b), a) \in Pages /\ PageOf(n, PARENT(b), a + 1) \in Pages
    BY <2>1, BlockInPool
  <2> QED BY <2>1, <2>2
<1>4. d = block_to_page(BUDDY(block), at)
  BY <1>1, <1>3, PageOfBlock
<1>5. d # m /\ m \in Nat /\ d \in Nat /\ e \in {m, d}
  BY <1>1, <1>3 DEF Pages
<1> DEFINE S == FreeIn(status, rank, a)
           L1 == list_remove(Lists, a, d)
<1>6. /\ status[d] = UNUSED /\ rank[d] = a /\ d \in S
  BY <1>1, <1>4 DEF Merge, Merges, FreeIn
<1>7. /\ SetLists(L1)
      /\ status' = [status EXCEPT ![m] = UNDEF, ![d] = UNDEF]
      /\ count' = [count EXCEPT ![a] = @ - 1]
      /\ at' = a + 1 /\ block' = PARENT(b) /\ pc = "merge"
      /\ UNCHANGED <<rank_num, rank, index, pc, want>>
  BY <1>1, <1>4 DEF Merge
<1>8. /\ status \in [Pages -> {UNDEF, UNUSED, USED}] /\ rank \in [Pages -> 0..MaxRank]
      /\ index \in [Pages -> Nat] /\ count \in [Ranks -> Int] /\ rank_num \in 0..MaxRank
      /\ want \in 0..MaxRank
  BY DEF IInv, TypInv
<1>9. \A p \in Pages : status'[p] = IF p \in {m, d} THEN UNDEF ELSE status[p]
  BY <1>7, <1>8
<1>10. /\ FreeIn(status', rank, a) = S \ {d}
       /\ \A k : k # a => FreeIn(status', rank, k) = FreeIn(status, rank, k)
  <2>1. \A k : \A p : p \in FreeIn(status', rank, k) <=>
          p # d /\ p \in FreeIn(status, rank, k)
    BY <1>1, <1>9 DEF FreeIn, UNDEF, UNUSED
  <2>2. \A k : k # a => d \notin FreeIn(status, rank, k)
    BY <1>6 DEF FreeIn
  <2> QED BY <2>1, <2>2
<1>11. /\ ListsTyped(L1) /\ Linked(L1, a, S \ {d})
       /\ \A k \in Ranks : k # a /\ k \in 1..rank_num => Linked(L1, k, FreeIn(status, rank, k))
  <2>1. /\ ListsTyped(Lists)
        /\ \A k \in 1..rank_num : Linked(Lists, k, FreeIn(status, rank, k))
    BY DEF IInv, TypInv, ListInv
  <2>2. \A k \in Ranks : k # a => FreeIn(status, rank, k) \cap S = {}
    BY DEF FreeIn
  <2>3. /\ ListsTyped(L1) /\ Linked(L1, a, S \ {d})
        /\ \A k \in Ranks : \A X : k # a /\ Linked(Lists, k, X) /\ X \cap S = {}
             => Linked(L1, k, X)
    BY <1>1, <1>6, <2>1, RemoveLinks
  <2> HIDE DEF L1
  <2> QED BY <2>1, <2>2, <2>3
<1>12. Lists' = L1
  BY <1>7 DEF SetLists, Lists, list_remove
<1> HIDE DEF L1
<1>13. TypInv'
  <2>1. status' \in [Pages -> {UNDEF, UNUSED, USED}] /\ count' \in [Ranks -> Int]
    BY <1>1, <1>7, <1>8
  <2>2. PARENT(b) \in Nat
    BY <1>3 DEF IsBlock
  <2> QED BY <1>2, <1>7, <1>8, <1>11, <1>12, <2>1, <2>2 DEF TypInv
<1>14. BlockInv'
  <2> SUFFICES ASSUME NEW p \in Pages, status'[p] # UNDEF
               PROVE  IsBlock(n, index[p], rank[p]) /\ PageOf(n, index[p], rank[p]) = p
    BY <1>1, <1>7 DEF BlockInv
  <2> QED BY <1>1, <1>9 DEF IInv, BlockInv
<1>15. CallInv'
  <2>1. status'[e] # UNUSED
    BY <1>5, <1>9 DEF UNDEF, UNUSED
  <2> QED BY <1>1, <1>3, <1>7, <2>1 DEF CallInv
<1>16. ListInv'
  <2> SUFFICES ASSUME NEW k \in 1..rank_num PROVE Linked(L1, k, FreeIn(status', rank, k))
    BY <1>7, <1>12 DEF ListInv
  <2>1. k \in Ranks
    BY <1>8, SizeAssumption DEF Ranks
  <2> QED BY <1>10, <1>11, <2>1
<1>17. CountInv'
  <2> SUFFICES ASSUME NEW k \in Ranks
               PROVE count'[k] = IF k =< rank_num THEN Cardinality(FreeIn(status', rank, k)) ELSE 0
    BY <1>7 DEF CountInv
  <2>1. count[k] = IF k =< rank_num THEN Cardinality(FreeIn(status, rank, k)) ELSE 0
    BY DEF IInv, CountInv
  <2>2. count'[k] = IF k = a THEN count[a] - 1 ELSE count[k]
    BY <1>1, <1>7, <1>8
  <2>3. Cardinality(S \ {d}) = Cardinality(S) - 1
    BY <1>6, FreeFinite, FS_RemoveElement
  <2>4. k = a => k =< rank_num
    BY <1>1
  <2> QED BY <1>10, <2>1, <2>2, <2>3, <2>4
<1>18. TileInv'
  <2>1. \A p \in Pages : Returned(p)' <=> p = e
    BY <1>1, <1>3, <1>7 DEF Returned
  <2>2. Starts' = Starts \ {e + w}
    <3>1. Starts' = {p \in Pages : status'[p] # UNDEF \/ p = e}
      BY <2>1 DEF Starts
    <3>2. Starts = {p \in Pages : status[p] # UNDEF \/ p = m}
      BY <1>1 DEF Starts
    <3>3. (e = m /\ e + w = d) \/ (e = d /\ e + w = m)
      BY <1>3
    <3>4. \A p \in Pages : (status'[p] # UNDEF \/ p = e) <=>
            (status[p] # UNDEF \/ p = m) /\ p # e + w
      BY <1>5, <1>6, <1>9, <3>3 DEF UNDEF, UNUSED
    <3> QED BY <3>1, <3>2, <3>4
  <2>3. \A p \in Pages : Widths'[p] = Width(IF p = e THEN a + 1 ELSE rank[p])
    BY <1>7, <2>1 DEF Widths, Width
  <2>4. \A p \in Pages : Widths[p] = Width(IF p = m THEN a ELSE rank[p])
    BY <1>1 DEF Widths
  <2>5. /\ e \in Starts /\ e + w \in Starts /\ Widths[e] = w /\ Widths[e + w] = w
        /\ Widths'[e] = 2 * w
        /\ \A p \in Starts : p # e /\ p # e + w => Widths'[p] = Widths[p]
    <3>1. (e = m /\ e + w = d) \/ (e = d /\ e + w = m)
      BY <1>3
    <3>2. d \in Starts /\ Starts \subseteq Pages
      BY <1>6 DEF Starts, UNUSED, UNDEF
    <3>3. Widths[m] = w /\ Widths[d] = w
      BY <1>5, <1>6, <2>4
    <3> QED BY <1>1, <1>3, <2>3, <2>4, <3>1, <3>2, <3>3
  <2>6. Tiles(Starts \ {e + w}, Widths', page_num)
    BY <1>1, <2>5, TilesMerge
  <2> QED BY <1>7, <2>2, <2>6 DEF TileInv, page_num
<1> QED BY <1>13, <1>14, <1>15, <1>16, <1>17, <1>18 DEF IInv

\* Every block lies in the pool of the last init_page, so what a larger pool
\* does not clear was never used.
LEMMA InitPageStep ==
  ASSUME IInv, ~Shrinks, NEW g \in PgCounts, init_page(g)
  PROVE  IInv'
<1>1. PICK n \in Ranks :
       /\ IsRankNum(n, g)
       /\ rank_num =< n
       /\ rank_num' = n
       /\ count'  = [r \in Ranks |-> IF r = n THEN 1 ELSE IF r < n THEN 0 ELSE count[r]]
       /\ bucket' = [r \in Ranks |-> IF r = n THEN 0 ELSE IF r < n THEN NULL ELSE bucket[r]]
       /\ status' = [p \in Pages |-> IF p = 0 THEN UNUSED
                                     ELSE IF p < g THEN UNDEF ELSE status[p]]
       /\ rank'   = [p \in Pages |-> IF p = 0 THEN n
                                     ELSE IF p < g THEN 0 ELSE rank[p]]
       /\ index'  = [p \in Pages |-> IF p < g THEN 0 ELSE index[p]]
       /\ prev'   = [p \in Pages |-> IF p < g THEN NULL ELSE prev[p]]
       /\ next'   = [p \in Pages |-> IF p < g THEN NULL ELSE next[p]]
  BY DEF init_page
<1>2. pc = "idle" /\ pc' = "idle" /\ want' = want /\ at' = at /\ block' = block
  BY DEF init_page, call
<1>3. /\ TypInv /\ BlockInv /\ ListInv /\ CountInv
      /\ status \in [Pages -> {UNDEF, UNUSED, USED}] /\ rank \in [Pages -> 0..MaxRank]
      /\ index \in [Pages -> Nat] /\ count \in [Ranks -> Int] /\ rank_num \in 0..MaxRank
      /\ bucket \in [Ranks -> Pages \cup {NULL}] /\ prev \in [Pages -> Pages \cup {NULL}]
      /\ next \in [Pages -> Pages \cup {NULL}]
  BY DEF IInv, TypInv, ListsTyped, Lists
<1>4. /\ n \in 1..MaxRank /\ n \in Nat /\ n - 1 \in 0..MaxRank /\ g \in Nat /\ 1 =< g
      /\ MaxRank \in Nat
  BY SizeAssumption, ArgAssumption DEF Ranks
<1>5. Pow2[n - 1] \in Nat /\ Pow2[n - 1] >= 1 /\ Pow2[n - 1] =< g /\ 0 \in Pages
  <2>0. MaxRank \in 0..MaxRank
    BY <1>4
  <2>1. Pow2[n - 1] \in Nat \ {0} /\ Pow2[MaxRank] \in Nat \ {0}
    BY <1>4, <2>0, ShiftAssumption
  <2> QED BY <1>1, <2>1 DEF IsRankNum, Pages
<1>6. \A p \in Pages : p >= g => status[p] = UNDEF
  <2> SUFFICES ASSUME NEW p \in Pages, status[p] # UNDEF PROVE p < g
    BY <1>4 DEF Pages
  <2>1. IsBlock(rank_num, index[p], rank[p]) /\ PageOf(rank_num, index[p], rank[p]) = p
    BY <1>3 DEF BlockInv
  <2>2. rank_num \in Ranks /\ rank_num - 1 \in 0..MaxRank /\ n - 1 \in (rank_num - 1)..MaxRank
        /\ rank[p] - 1 \in 0..MaxRank
    BY <1>1, <1>3, <1>4, <2>1 DEF IsBlock, Ranks
  <2>3. p + Width(rank[p]) =< Pow2[rank_num - 1] /\ p \in Nat
    BY <2>1, <2>2, BlockInPool
  <2>4. Width(rank[p]) \in Nat \ {0}
    BY <2>2, ShiftAssumption DEF Width
  <2>5. Pow2[rank_num - 1] =< Pow2[n - 1] /\ Pow2[rank_num - 1] \in Nat
    BY <2>2, Powers
  <2> QED BY <1>4, <1>5, <2>3, <2>4, <2>5
<1>7. \A p \in Pages : status'[p] = IF p = 0 THEN UNUSED ELSE UNDEF
  BY <1>1, <1>4, <1>6 DEF Pages
<1>8. /\ rank'[0] = n /\ index'[0] = 0 /\ prev'[0] = NULL /\ next'[0] = NULL
  BY <1>1, <1>4, <1>5
<1>9. TypInv'
  <2>1. n \in 0..MaxRank /\ 0 \in 0..MaxRank
    BY <1>4
  <2>2. status' \in [Pages -> {UNDEF, UNUSED, USED}] /\ rank' \in [Pages -> 0..MaxRank]
    BY <1>1, <1>3, <2>1
  <2>3. index' \in [Pages -> Nat] /\ count' \in [Ranks -> Int]
    BY <1>1, <1>3
  <2>4. bucket' \in [Ranks -> Pages \cup {NULL}] /\ prev' \in [Pages -> Pages \cup {NULL}]
        /\ next' \in [Pages -> Pages \cup {NULL}]
    BY <1>1, <1>3, <1>5
  <2> QED BY <1>1, <1>2, <1>3, <2>1, <2>2, <2>3, <2>4 DEF TypInv, ListsTyped, Lists
<1>10. IsBlock(n, 0, n) /\ PageOf(n, 0, n) = 0
  <2>1. n - n = 0 /\ Pow2[0] = 1
    BY <1>4, ShiftAssumption
  <2>2. 0 - 1 + 1 = 0 /\ 0 * Pow2[n - 1] = 0
    BY <1>5
  <2> QED BY <1>4, <2>1, <2>2 DEF IsBlock, PageOf
<1>11. BlockInv'
  BY <1>1, <1>7, <1>8, <1>10 DEF BlockInv
<1>12. CallInv'
  BY <1>2 DEF CallInv
<1>13. \A k \in 1..n : FreeIn(status', rank', k) = IF k = n THEN {0} ELSE {}
  BY <1>5, <1>7, <1>8 DEF FreeIn, UNUSED, UNDEF
<1>14. ListInv'
  <2> SUFFICES ASSUME NEW k \in 1..n PROVE Linked(Lists', k, FreeIn(status', rank', k))
    BY <1>1 DEF ListInv
  <2>1. k \in Ranks /\ k =< n /\ k \in Int
    BY <1>4 DEF Ranks
  <2>2. bucket'[k] = IF k = n THEN 0 ELSE NULL
    BY <1>1, <1>4, <2>1
  <2>3. Joined(Lists', k, FreeIn(status', rank', k))
    BY <1>5, <1>8, <1>13, <2>2, NoPage DEF Joined, Lists
  <2>4. CASE k = n
    <3>1. InLine(Lists', k, {0}, 1, [i \in 1..1 |-> 0])
      BY <1>8, <2>2, <2>4 DEF InLine, Lists
    <3> QED BY <1>13, <2>3, <2>4, <3>1 DEF Linked
  <2>5. CASE k # n
    <3>1. InLine(Lists', k, {}, 0, [i \in 1..0 |-> 0])
      BY <2>2, <2>5 DEF InLine, Lists
    <3> QED BY <1>13, <2>3, <2>5, <3>1 DEF Linked
  <2> QED BY <2>4, <2>5
<1>15. CountInv'
  <2> SUFFICES ASSUME NEW k \in Ranks
               PROVE count'[k] = IF k =< n THEN Cardinality(FreeIn(status', rank', k)) ELSE 0
    BY <1>1 DEF CountInv
  <2>1. k \in Nat /\ k >= 1
    BY DEF Ranks
  <2>2. CASE k =< n
    <3>1. FreeIn(status', rank', k) = IF k = n THEN {0} ELSE {}
      BY <1>4, <1>13, <2>1, <2>2
    <3>2. Cardinality({0}) = 1 /\ Cardinality({}) = 0
      BY FS_Singleton, FS_EmptySet
    <3>3. count'[k] = IF k = n THEN 1 ELSE 0
      BY <1>1, <1>4, <2>1, <2>2
    <3> QED BY <2>2, <3>1, <3>2, <3>3
  <2>3. CASE ~(k =< n)
    BY <1>1, <1>3, <1>4, <2>1, <2>3 DEF CountInv
  <2> QED BY <2>2, <2>3
<1>16. TileInv'
  <2>1. \A p \in Pages : ~Returned(p)'
    BY <1>2 DEF Returned
  <2>2. Starts' = {0}
    BY <1>5, <1>7, <2>1 DEF Starts, UNUSED, UNDEF
  <2>3. Widths'[0] = Pow2[n - 1]
    BY <1>5, <1>8, <2>1 DEF Widths, Width
  <2>4. Tiles({0}, Widths', Pow2[n - 1])
    BY <1>5, <2>3 DEF Tiles
  <2> QED BY <1>1, <2>2, <2>4 DEF TileInv, page_num
<1> QED BY <1>9, <1>11, <1>12, <1>14, <1>15, <1>16 DEF IInv

-----------------------------------------------------------------------------
(* The theorems. *)

\* Every step keeps the invariant, init_page unless it shrinks the pool.
LEMMA NextInv == ASSUME ~Shrinks, IInv, [Next]_vars PROVE IInv'
<1>1. ASSUME NEW g \in PgCounts, init_page(g) PROVE IInv'
  BY <1>1, InitPageStep
<1>2. ASSUME NEW r \in RankArgs, AllocRefuse(r) \/ AllocScan(r) PROVE IInv'
  BY <1>2, QuietSteps, ScanStep
<1>3. CASE Split
  BY <1>3, SplitStep
<1>4. CASE Take
  BY <1>4, TakeStep
<1>5. ASSUME NEW ptr \in PtrArgs, ReturnRefuse(ptr) \/ ReturnBegin(ptr) PROVE IInv'
  <2>1. ptr \in Int
    BY ArgAssumption
  <2> QED BY <1>5, <2>1, QuietSteps, BeginStep
<1>6. CASE Merge
  BY <1>6, MergeStep
<1>7. CASE Put
  BY <1>7, PutStep
<1>8. CASE UNCHANGED vars
  BY <1>8 DEF vars, IInv, TypInv, BlockInv, CallInv, ListInv, CountInv, TileInv, Lists,
     Starts, Widths, Returned, page_num, lists, call
<1> QED BY <1>1, <1>2, <1>3, <1>4, <1>5, <1>6, <1>7, <1>8 DEF Next

\* The invariant holds in every reachable state.
LEMMA InvHolds == ASSUME ~Shrinks PROVE Spec => []IInv
<1>1. Init => IInv
  BY InitInv
<1>2. IInv /\ [Next]_vars => IInv'
  BY NextInv
<1> QED BY <1>1, <1>2, PTL DEF Spec

(* TypeOK: no variable leaves its type, no index leaves its array and no count
   falls below zero, for every size of pool, although alloc_pages and
   return_pages of buddy.c test none of this. *)
THEOREM TypeCorrect == ASSUME ~Shrinks PROVE Spec => []TypeOK
<1>1. IInv => TypeOK
  <2> SUFFICES ASSUME IInv PROVE TypeOK
    OBVIOUS
  <2>1. count \in [Ranks -> 0..Pow2[MaxRank]]
    <3> SUFFICES ASSUME NEW r \in Ranks PROVE count[r] \in 0..Pow2[MaxRank]
      BY DEF IInv, TypInv
    <3>1. MaxRank \in 0..MaxRank
      BY SizeAssumption
    <3>2. Pow2[MaxRank] \in Nat \ {0}
      BY <3>1, ShiftAssumption
    <3> QED BY <3>2, FreeFinite DEF IInv, CountInv
  <2> QED BY <2>1 DEF IInv, TypInv, ListsTyped, Lists, TypeOK
<1> QED BY <1>1, InvHolds, PTL

(* BlocksPartitionPool: whatever was split, merged, allocated and returned, in
   a pool of any size, no page is in two blocks and none is lost: the loops of
   alloc_pages and return_pages of buddy.c. *)
THEOREM PoolPartitioned == ASSUME ~Shrinks PROVE Spec => []BlocksPartitionPool
<1>1. IInv => BlocksPartitionPool
  <2> SUFFICES ASSUME IInv PROVE BlocksPartitionPool
    OBVIOUS
  <2> DEFINE R(p) == IF Returned(p) THEN at ELSE rank[p]
  <2>1. Blocks = {<<p, R(p)>> : p \in Starts}
    <3>1. CASE pc = "merge"
      <4>1. PICK m \in Pages : m = block_to_page(block, at) /\ m \in Starts
                               /\ \A p \in Pages : Returned(p) <=> p = m
        BY <3>1, HeldBlock
      <4>2. R(m) = at /\ \A p \in Pages : p # m => R(p) = rank[p]
        BY <4>1
      <4>3. Starts = {p \in Pages : status[p] # UNDEF \/ p = m}
        BY <4>1 DEF Starts
      <4>4. Blocks = {c \in Listed : c[1] # m} \cup {<<m, at>>}
        BY <3>1, <4>1 DEF Blocks, Held
      <4>5. Listed = {<<p, rank[p]>> : p \in {q \in Pages : status[q] # UNDEF}}
        BY DEF Listed
      <4> HIDE DEF R
      <4> QED BY <4>2, <4>3, <4>4, <4>5
    <3>2. CASE pc # "merge"
      <4>1. \A p \in Pages : ~Returned(p)
        BY <3>2 DEF Returned
      <4> QED BY <3>2, <4>1 DEF Blocks, Held, Listed, Starts
    <3> QED BY <3>1, <3>2
  <2>2. \A p \in Starts : Widths[p] = Width(R(p))
    BY DEF Widths, Starts
  <2> HIDE DEF R
  <2>3. CASE rank_num = 0
    <3>1. Starts = {}
      BY <2>3 DEF IInv, BlockInv, CallInv, IsBlock, Starts, Returned
    <3> QED BY <2>1, <2>3, <3>1 DEF BlocksPartitionPool, Pool
  <2>4. CASE rank_num # 0
    <3>1. Tiles(Starts, Widths, page_num)
      BY <2>4 DEF IInv, TileInv
    <3>2. \A p \in Starts : Span(p, R(p)) = p..(p + Widths[p] - 1)
      BY <2>2 DEF Span
    <3>3. Pool = 0..(page_num - 1) /\ page_num \in Nat
      <4>1. rank_num - 1 \in 0..MaxRank
        BY <2>4, SizeAssumption DEF IInv, TypInv
      <4>2. page_num \in Nat \ {0}
        BY <4>1, ShiftAssumption DEF page_num
      <4> QED BY <2>4, <4>2 DEF Pool
    <3>4. \A p \in Starts : Span(p, R(p)) \subseteq Pool
      <4> SUFFICES ASSUME NEW p \in Starts PROVE p..(p + Widths[p] - 1) \subseteq Pool
        BY <3>2
      <4>1. p \in Nat /\ Widths[p] \in Nat /\ p + Widths[p] =< page_num
        BY <3>1 DEF Tiles
      <4> QED BY <3>3, <4>1
    <3>5. \A p, q \in Starts : p # q => Span(p, R(p)) \cap Span(q, R(q)) = {}
      <4> SUFFICES ASSUME NEW p \in Starts, NEW q \in Starts, p < q
                   PROVE  Span(p, R(p)) \cap Span(q, R(q)) = {}
        <5>1. Starts \subseteq Nat
          BY <3>1 DEF Tiles
        <5> QED BY <5>1
      <4>1. p + Widths[p] =< q /\ p \in Nat /\ q \in Nat /\ Widths[p] \in Nat
            /\ Widths[q] \in Nat
        BY <3>1 DEF Tiles
      <4>2. (p..(p + Widths[p] - 1)) \cap (q..(q + Widths[q] - 1)) = {}
        BY <4>1
      <4> QED BY <3>2, <4>2
    <3>6. \A x \in Pool : \E p \in Starts : x \in Span(p, R(p))
      <4> SUFFICES ASSUME NEW x \in Pool PROVE \E p \in Starts : x \in Span(p, R(p))
        OBVIOUS
      <4>1. PICK p \in Starts : p =< x /\ x < p + Widths[p]
        BY <3>1, <3>3 DEF Tiles
      <4>2. p \in Nat /\ Widths[p] \in Nat /\ x \in Nat
        BY <3>1, <3>3 DEF Tiles
      <4> QED BY <3>2, <4>1, <4>2
    <3>7. \A c \in Blocks : c[1] \in Starts /\ c = <<c[1], R(c[1])>> /\ c[2] = R(c[1])
      BY <2>1
    <3>8. \A c \in Blocks : Span(c[1], c[2]) \subseteq Pool
      BY <3>4, <3>7
    <3>9. \A b, c \in Blocks : b # c => Span(b[1], b[2]) \cap Span(c[1], c[2]) = {}
      <4> SUFFICES ASSUME NEW b \in Blocks, NEW c \in Blocks, b # c
                   PROVE  Span(b[1], b[2]) \cap Span(c[1], c[2]) = {}
        OBVIOUS
      <4>1. b[1] # c[1]
        BY <3>7
      <4>2. b[1] \in Starts /\ c[1] \in Starts /\ b[2] = R(b[1]) /\ c[2] = R(c[1])
        BY <3>7
      <4>3. Span(b[1], R(b[1])) \cap Span(c[1], R(c[1])) = {}
        BY <3>5, <4>1, <4>2
      <4> QED BY <4>2, <4>3
    <3>10. \A x \in Pool : \E c \in Blocks : x \in Span(c[1], c[2])
      <4> SUFFICES ASSUME NEW x \in Pool PROVE \E c \in Blocks : x \in Span(c[1], c[2])
        OBVIOUS
      <4>1. PICK p \in Starts : x \in Span(p, R(p))
        BY <3>6
      <4>2. <<p, R(p)>> \in Blocks
        BY <2>1, <4>1
      <4> QED BY <4>1, <4>2
    <3> QED BY <3>8, <3>9, <3>10 DEF BlocksPartitionPool
  <2> QED BY <2>3, <2>4
<1> QED BY <1>1, InvHolds, PTL

\* A list from which alloc_pages takes has a first block.
LEMMA InvSplits == IInv => SplitsFreeBlocks
<1> SUFFICES ASSUME IInv, pc = "split" PROVE want =< at /\ bucket[at] \in Free(at)
  BY DEF SplitsFreeBlocks
<1>1. want \in 1..rank_num /\ at \in want..rank_num /\ bucket[at] # NULL
      /\ rank_num \in 0..MaxRank
  BY DEF IInv, TypInv, CallInv
<1>2. at \in 1..rank_num /\ want =< at
  BY <1>1, SizeAssumption
<1>3. bucket[at] \in FreeIn(status, rank, at)
  BY <1>1, <1>2, HeadOfList
<1> QED BY <1>2, <1>3 DEF Free, FreeIn

(* SplitsFreeBlocks: the block that alloc_pages of buddy.c splits or takes is
   a free block of the rank of its list, so list_pop never returns NULL. *)
THEOREM SplitsAreFree == ASSUME ~Shrinks PROVE Spec => []SplitsFreeBlocks
BY InvSplits, InvHolds, PTL

-----------------------------------------------------------------------------
(* The lists, from the head on. *)

\* Every nonempty set of natural numbers has a least element.
LEMMA Least ==
    ASSUME NEW S \in SUBSET Nat, S # {}
    PROVE  \E n \in S : \A m \in S : n =< m
<1> DEFINE R == {ss \in Nat \X Nat : ss[1] < ss[2]}
<1>1. IsWellFoundedOn(R, Nat)
  BY NatLessThanWellFounded DEF OpToRel
<1>2. \A m, n \in Nat : m < n => <<m, n>> \in R
  OBVIOUS
<1>3. \E n \in S : \A m \in S : ~ (<<m, n>> \in R)
  <2> HIDE DEF R
  <2> QED BY <1>1, WFMin
<1>4. PICK n \in S : \A m \in S : ~ (<<m, n>> \in R)
  BY <1>3
<1> HIDE DEF R
<1>5. \A m \in S : ~ (m < n)
  BY <1>2, <1>4
<1> QED
  BY <1>5

\* A list is as long as its set of nodes is large.
LEMMA LengthOfLine ==
  ASSUME NEW L, NEW r, NEW S \in SUBSET Pages, NEW N, NEW s, InLine(L, r, S, N, s)
  PROVE  N \in Nat /\ N = Cardinality(S) /\ N =< Pow2[MaxRank] /\ Pow2[MaxRank] \in Nat
         /\ Pow2[MaxRank] >= 1
<1>1. Pow2[MaxRank] \in Nat \ {0}
  BY SizeAssumption, ShiftAssumption
<1>2. N \in Nat
  BY DEF InLine
<1>3. s \in Bijection(1..N, S)
  BY DEF InLine, Bijection, Injection, Surjection, IsInjective
<1>4. IsFiniteSet(1..N) /\ Cardinality(1..N) = N
  <2>1. /\ IsFiniteSet(1..N)
        /\ Cardinality(1..N) = IF 1 > N THEN 0 ELSE N - 1 + 1
    BY <1>2, FS_Interval
  <2> QED BY <1>2, <2>1
<1>5. Cardinality(S) = N
  <2>1. ExistsBijection(1..N, S)
    BY <1>3 DEF ExistsBijection
  <2> QED BY <1>4, <2>1, FS_Bijection
<1>6. Cardinality(S) =< Pow2[MaxRank]
  <2>1. PICK n \in Int : n = Pow2[MaxRank] - 1 /\ n >= 0
    BY <1>1
  <2>2. /\ IsFiniteSet(0..n)
        /\ Cardinality(0..n) = IF 0 > n THEN 0 ELSE n - 0 + 1
    BY FS_Interval
  <2>3. IsFiniteSet(Pages) /\ Cardinality(Pages) = Pow2[MaxRank]
    BY <1>1, <2>1, <2>2 DEF Pages
  <2> QED BY <2>3, FS_Subset
<1> QED BY <1>1, <1>2, <1>5, <1>6

\* Following next from the head meets the nodes of the list in their order.
LEMMA WalkOfLine ==
  ASSUME NEW r, NEW S \in SUBSET Pages, NEW N, NEW s, InLine(Lists, r, S, N, s)
  PROVE  Walk(r) = s
<1> DEFINE M == Pow2[MaxRank]
           P(g) == g = [k \in 1..M |->
             IF k = 1 THEN bucket[r] ELSE IF g[k - 1] = NULL THEN NULL ELSE next[g[k - 1]]]
           f == [k \in 1..M |-> IF k =< N THEN s[k] ELSE NULL]
<1>1. N \in Nat /\ N =< M /\ M \in Nat /\ M >= 1
  BY LengthOfLine
<1>2. /\ s \in [1..N -> S]
      /\ bucket[r] = IF N = 0 THEN NULL ELSE s[1]
      /\ \A i \in 1..N : next[s[i]] = IF i = N THEN NULL ELSE s[i + 1]
  BY DEF InLine, Lists
<1>3. \A i \in 1..N : s[i] # NULL
  BY <1>2, NoPage
<1> HIDE DEF M
<1>4. \A k \in 1..M : f[k] = IF k = 1 THEN bucket[r]
                             ELSE IF f[k - 1] = NULL THEN NULL ELSE next[f[k - 1]]
  <2> SUFFICES ASSUME NEW k \in 1..M
               PROVE  f[k] = IF k = 1 THEN bucket[r]
                             ELSE IF f[k - 1] = NULL THEN NULL ELSE next[f[k - 1]]
    OBVIOUS
  <2>1. CASE k = 1
    BY <1>1, <1>2, <2>1
  <2>2. CASE k # 1
    <3>1. k - 1 \in 1..M /\ k \in Nat /\ k - 1 \in Nat
      BY <1>1, <2>2
    <3>2. CASE k =< N
      <4>1. k - 1 \in 1..N /\ k - 1 # N /\ k - 1 =< N /\ (k - 1) + 1 = k
        BY <1>1, <2>2, <3>2
      <4>2. f[k - 1] = s[k - 1] /\ f[k] = s[k]
        BY <3>1, <3>2, <4>1
      <4>3. next[s[k - 1]] = s[k]
        BY <1>2, <4>1
      <4> QED BY <1>3, <2>2, <4>1, <4>2, <4>3
    <3>3. CASE k = N + 1
      <4>1. k - 1 \in 1..N /\ k - 1 = N /\ k - 1 =< N /\ ~(k =< N)
        BY <1>1, <2>2, <3>3
      <4>2. f[k - 1] = s[k - 1] /\ f[k] = NULL
        BY <3>1, <4>1
      <4>3. next[s[k - 1]] = NULL
        BY <1>2, <4>1
      <4> QED BY <1>3, <2>2, <4>1, <4>2, <4>3
    <3>4. CASE k > N + 1
      <4>1. ~(k - 1 =< N) /\ ~(k =< N)
        BY <1>1, <2>2, <3>4
      <4>2. f[k - 1] = NULL /\ f[k] = NULL
        BY <3>1, <4>1
      <4> QED BY <2>2, <4>2
    <3> QED BY <1>1, <3>1, <3>2, <3>3, <3>4
  <2> QED BY <2>1, <2>2
<1>5. P(f)
  BY <1>4
<1>6. Nodes(r) = CHOOSE g : P(g)
  BY Zenon DEF Nodes, M
<1>7. P(Nodes(r))
  <2> HIDE DEF P, f
  <2>1. P(CHOOSE g : P(g))
    BY <1>5
  <2> QED BY <1>6, <2>1
<1> DEFINE g == Nodes(r)
<1>8. g = [k \in 1..M |-> IF k = 1 THEN bucket[r] ELSE IF g[k - 1] = NULL THEN NULL ELSE next[g[k - 1]]]
  BY <1>7
<1> HIDE DEF g, P
<1>9. \A k \in 1..M : g[k] = IF k = 1 THEN bucket[r]
                             ELSE IF g[k - 1] = NULL THEN NULL ELSE next[g[k - 1]]
  BY <1>8
<1>10. \A k \in 1..M : g[k] = f[k]
  <2> DEFINE D == {k \in 1..M : g[k] # f[k]}
  <2> SUFFICES ASSUME D # {} PROVE FALSE
    OBVIOUS
  <2>1. D \in SUBSET Nat
    OBVIOUS
  <2> HIDE DEF f
  <2>2. PICK k \in D : \A j \in D : k =< j
    <3> HIDE DEF D
    <3> QED BY <2>1, Least
  <2>3. k \in 1..M /\ g[k] # f[k]
    OBVIOUS
  <2>4. k # 1 => k - 1 \in 1..M /\ k - 1 \notin D
    <3>1. k \in Nat /\ ~(k =< k - 1) /\ (k # 1 => k - 1 \in 1..M)
      BY <1>1, <2>3
    <3> QED BY <2>2, <3>1
  <2>5. k # 1 => g[k - 1] = f[k - 1]
    BY <2>4
  <2> QED BY <1>4, <1>9, <2>3, <2>5
<1>11. {n \in 1..M : g[n] # NULL} = 1..N
  <2>1. \A n \in 1..M : g[n] # NULL <=> n =< N
    <3> SUFFICES ASSUME NEW n \in 1..M PROVE g[n] # NULL <=> n =< N
      OBVIOUS
    <3>1. n =< N => n \in 1..N
      BY <1>1
    <3>2. g[n] = IF n =< N THEN s[n] ELSE NULL
      BY <1>10
    <3> QED BY <1>3, <3>1, <3>2
  <2> HIDE DEF f
  <2>2. \A n : n \in 1..N <=> n \in 1..M /\ n =< N
    BY <1>1
  <2> QED BY <2>1, <2>2
<1>12. Cardinality(1..N) = N
  <2>1. /\ IsFiniteSet(1..N)
        /\ Cardinality(1..N) = IF 1 > N THEN 0 ELSE N - 1 + 1
    BY <1>1, FS_Interval
  <2> QED BY <1>1, <2>1
<1>13. Walk(r) = [k \in 1..N |-> g[k]]
  <2>1. Walk(r) = [k \in 1..Cardinality({n \in 1..M : g[n] # NULL}) |-> g[k]]
    BY DEF Walk, g, M
  <2> QED BY <1>11, <1>12, <2>1
<1>14. \A k \in 1..N : g[k] = s[k]
  <2> SUFFICES ASSUME NEW k \in 1..N PROVE g[k] = s[k]
    OBVIOUS
  <2>1. k \in 1..M /\ k =< N
    BY <1>1
  <2> QED BY <1>10, <2>1
<1> HIDE DEF f
<1> QED BY <1>2, <1>13, <1>14

(* ListsHoldFreeBlocks: from its head the list of each rank leads through the
   free blocks of that rank, each once, prev leads back and count is how many
   they are, for pools of every size: list_push, list_pop and list_remove as alloc_pages and return_pages of
   buddy.c use them. *)
THEOREM ListsAreWhole == ASSUME ~Shrinks PROVE Spec => []ListsHoldFreeBlocks
<1>1. IInv => SplitsFreeBlocks
  BY InvSplits
<1>2. ASSUME IInv, NEW r \in 1..rank_num
      PROVE  /\ {Walk(r)[n] : n \in DOMAIN Walk(r)} = Free(r)
             /\ Len(Walk(r)) = Cardinality(Free(r)) /\ Len(Walk(r)) = count[r]
             /\ \A n \in DOMAIN Walk(r) :
                  prev[Walk(r)[n]] = IF n = 1 THEN NULL ELSE Walk(r)[n - 1]
  <2>1. Linked(Lists, r, Free(r))
    BY <1>2 DEF IInv, ListInv, Free, FreeIn
  <2>2. PICK N, s : InLine(Lists, r, Free(r), N, s)
    BY <2>1 DEF Linked
  <2>3. Free(r) \in SUBSET Pages
    BY DEF Free
  <2>4. Walk(r) = s
    BY <2>2, <2>3, WalkOfLine
  <2>5. N = Cardinality(Free(r)) /\ N \in Nat
    BY <2>2, <2>3, LengthOfLine
  <2>6. s \in [1..N -> Free(r)] /\ DOMAIN s = 1..N
    BY <2>2 DEF InLine
  <2>7. Len(s) = N
    <3>1. s \in Seq(Free(r))
      BY <2>5, <2>6
    <3> QED BY <2>5, <2>6, <3>1
  <2>8. {s[n] : n \in DOMAIN s} = Free(r)
    BY <2>2, <2>6 DEF InLine
  <2>9. ASSUME NEW n \in 1..N PROVE prev[s[n]] = IF n = 1 THEN NULL ELSE s[n - 1]
    <3>1. CASE n = 1
      <4>1. bucket[r] = s[1] /\ s[1] # NULL
        BY <2>2, <2>3, <2>5, <2>6, <3>1, NoPage DEF InLine, Lists
      <4> QED BY <2>1, <3>1, <4>1 DEF Linked, Joined, Lists
    <3>2. CASE n # 1
      <4>1. n - 1 \in 1..N /\ n - 1 # N /\ (n - 1) + 1 = n
        BY <2>5, <3>2
      <4>2. next[s[n - 1]] = s[n] /\ s[n - 1] \in Free(r)
        BY <2>2, <2>6, <4>1 DEF InLine, Lists
      <4>3. s[n] # NULL
        BY <2>3, <2>6, NoPage
      <4> QED BY <2>1, <3>2, <4>2, <4>3 DEF Linked, Joined, Lists
    <3> QED BY <3>1, <3>2
  <2>10. Cardinality(Free(r)) = count[r]
    <3>1. r \in Ranks /\ r =< rank_num
      BY <1>2, SizeAssumption DEF IInv, TypInv, Ranks
    <3> QED BY <1>2, <3>1 DEF IInv, CountInv, Free, FreeIn
  <2> QED BY <2>4, <2>5, <2>6, <2>7, <2>8, <2>9, <2>10
<1>3. IInv => ListsHoldFreeBlocks
  BY <1>1, <1>2 DEF ListsHoldFreeBlocks
<1> QED BY <1>3, InvHolds, PTL

-----------------------------------------------------------------------------
(* What the loop of alloc_pages does to the free blocks. *)

\* What a turn of the split loop does: m, the first block of rank a, becomes
\* m and q of rank a - 1.
SplitsAt(n, a, m, q, w) ==
  /\ n = rank_num /\ a = at /\ m = bucket[a] /\ m \in Pages /\ q \in Pages
  /\ w = Width(a - 1) /\ w \in Nat /\ w >= 1 /\ Width(a) = 2 * w /\ q = m + w
  /\ a \in 1..n /\ a - 1 \in 1..n /\ a - 1 \in want..n /\ n \in Ranks
  /\ want \in 1..n /\ pc = "split"
  /\ m \in Free(a) /\ IsBlock(n, index[m], a) /\ PageOf(n, index[m], a) = m
  /\ status[q] = UNDEF
  /\ \A p \in Pages : status[p] # UNDEF /\ p # m => p < m \/ m + 2 * w =< p

SplitMoved(n, a, m, q) ==
  /\ rank_num' = n /\ at' = a - 1 /\ UNCHANGED <<pc, want, block, ret>>
  /\ Free(a)' = Free(a) \ {m} /\ Free(a - 1)' = Free(a - 1) \cup {m, q}
  /\ \A k \in Ranks : k # a /\ k # a - 1 => Free(k)' = Free(k)
  /\ \A p \in Pages : /\ status'[p] = IF p \in {m, q} THEN UNUSED ELSE status[p]
                      /\ rank'[p] = IF p \in {m, q} THEN a - 1 ELSE rank[p]
                      /\ next'[p] = IF p = m THEN q
                                    ELSE IF p = q THEN bucket[a - 1] ELSE next[p]
  /\ \A k \in Ranks : bucket'[k] = IF k = a - 1 THEN m ELSE IF k = a THEN next[m] ELSE bucket[k]

\* Every turn of the split loop does that.
LEMMA SplitMoves ==
  ASSUME IInv, Split
  PROVE  \E n, a, m, q, w : SplitsAt(n, a, m, q, w) /\ SplitMoved(n, a, m, q)
<1>1. PICK n \in Ranks, a \in Ranks, r \in Ranks :
        /\ n = rank_num /\ a = at /\ r = a - 1
        /\ want \in 1..n /\ a \in 1..n /\ a > 1 /\ r \in 1..n /\ r \in want..n
        /\ bucket[a] # NULL /\ pc = "split"
  <2>1. rank_num \in 0..MaxRank /\ at \in want..rank_num /\ want \in 1..rank_num
        /\ bucket[at] # NULL /\ at > want /\ pc = "split"
    BY DEF IInv, TypInv, CallInv, Split
  <2>2. /\ rank_num \in Ranks /\ at \in Ranks /\ at - 1 \in Ranks
        /\ at \in 1..rank_num /\ at > 1 /\ at - 1 \in 1..rank_num /\ at - 1 \in want..rank_num
    BY <2>1, SizeAssumption DEF Ranks
  <2> QED BY <2>1, <2>2
<1>2. PICK m \in Pages : /\ m = bucket[a]
        /\ m \in FreeIn(status, rank, a) /\ status[m] = UNUSED /\ rank[m] = a
        /\ IsBlock(n, index[m], a) /\ PageOf(n, index[m], a) = m
  BY <1>1, HeadOfList
<1>3. PICK w, q, lb, rb :
        /\ w = Width(r) /\ q = m + w /\ lb = CHILD(index[m], 0) /\ rb = CHILD(index[m], 1)
        /\ IsBlock(n, lb, r) /\ PageOf(n, lb, r) = m
        /\ IsBlock(n, rb, r) /\ PageOf(n, rb, r) = q
        /\ Width(a) = 2 * w
  BY <1>1, <1>2, Halves
<1>4. w \in Nat /\ w >= 1
  <2>1. r - 1 \in 0..MaxRank
    BY <1>1, SizeAssumption DEF Ranks
  <2>2. w \in Nat \ {0}
    BY <1>3, <2>1, ShiftAssumption DEF Width
  <2> QED BY <2>2
<1>5. q \in Pages
  BY <1>1, <1>3, BlockInPool
<1>6. block_to_page(rb, r) = q /\ block_to_page(lb, r) = m
  BY <1>1, <1>3, PageOfBlock
<1>7. \A p \in Pages : status[p] # UNDEF /\ p # m => p < m \/ m + 2 * w =< p
  <2> SUFFICES ASSUME NEW p \in Pages, status[p] # UNDEF, p # m PROVE p < m \/ m + 2 * w =< p
    OBVIOUS
  <2>1. Tiles(Starts, Widths, page_num)
    BY <1>1 DEF IInv, TileInv, Ranks
  <2>2. p \in Starts /\ m \in Starts /\ Widths[m] = 2 * w
    BY <1>1, <1>2, <1>3 DEF Starts, Widths, Returned, UNUSED, UNDEF
  <2>3. p \in Nat /\ m \in Nat
    BY <1>2 DEF Pages
  <2>4. m < p => m + Widths[m] =< p
    BY <2>1, <2>2 DEF Tiles
  <2> QED BY <1>4, <2>2, <2>3, <2>4
<1>8. status[q] = UNDEF /\ q # m
  <2>1. m \in Nat
    BY <1>2 DEF Pages
  <2>2. q # m /\ ~(q < m) /\ ~(m + 2 * w =< q)
    BY <1>3, <1>4, <2>1
  <2> QED BY <1>5, <1>7, <2>2
<1>9. /\ status' = [status EXCEPT ![m] = UNDEF, ![q] = UNUSED, ![m] = UNUSED]
      /\ rank' = [rank EXCEPT ![q] = r, ![m] = r]
      /\ SetLists(list_push(list_push(list_pop(Lists, a), r, q), r, m))
      /\ at' = r
      /\ UNCHANGED <<rank_num, pc, want, block, ret>>
  <2>1. /\ status' = [status EXCEPT ![m] = UNDEF, ![block_to_page(rb, r)] = UNUSED,
                                    ![block_to_page(lb, r)] = UNUSED]
        /\ rank' = [rank EXCEPT ![block_to_page(rb, r)] = r, ![block_to_page(lb, r)] = r]
        /\ SetLists(list_push(list_push(list_pop(Lists, a), r, block_to_page(rb, r)), r,
                           block_to_page(lb, r)))
        /\ at' = r
        /\ UNCHANGED <<rank_num, pc, want, block, ret>>
    BY <1>1, <1>2, <1>3 DEF Split
  <2> QED BY <1>6, <2>1
<1>10. /\ status \in [Pages -> {UNDEF, UNUSED, USED}] /\ rank \in [Pages -> 0..MaxRank]
       /\ bucket \in [Ranks -> Pages \cup {NULL}] /\ next \in [Pages -> Pages \cup {NULL}]
  BY DEF IInv, TypInv, ListsTyped, Lists
<1>11. \A p \in Pages : /\ status'[p] = IF p \in {m, q} THEN UNUSED ELSE status[p]
                        /\ rank'[p] = IF p \in {m, q} THEN r ELSE rank[p]
  BY <1>2, <1>5, <1>9, <1>10
<1>12. /\ Free(a)' = Free(a) \ {m} /\ Free(r)' = Free(r) \cup {m, q}
       /\ \A k \in Ranks : k # a /\ k # r => Free(k)' = Free(k)
  <2>0. r # a
    BY <1>1
  <2>1. \A k : \A p : p \in Free(k)' <=>
          p \in Pages /\ IF p \in {m, q} THEN r = k ELSE p \in Free(k)
    BY <1>11 DEF Free
  <2>2. /\ \A k : m \in Free(k) => k = a
        /\ \A k : q \notin Free(k)
    BY <1>2, <1>8 DEF Free, UNUSED, UNDEF
  <2>3. \A k : Free(k) \subseteq Pages
    BY DEF Free
  <2>4. Free(a)' = Free(a) \ {m}
    BY <2>0, <2>1, <2>2, <2>3
  <2>5. Free(r)' = Free(r) \cup {m, q}
    BY <1>2, <1>5, <2>1, <2>3
  <2>6. ASSUME NEW k \in Ranks, k # a, k # r PROVE Free(k)' = Free(k)
    BY <2>1, <2>2, <2>3, <2>6
  <2> QED BY <2>4, <2>5, <2>6
<1>13. /\ next' = [[next EXCEPT ![q] = [bucket EXCEPT ![a] = next[bucket[a]]][r]] EXCEPT ![m] = q]
       /\ bucket' = [[[bucket EXCEPT ![a] = next[bucket[a]]] EXCEPT ![r] = q] EXCEPT ![r] = m]
  <2>1. r \in DOMAIN [bucket EXCEPT ![a] = next[bucket[a]]]
    BY <1>1, <1>10
  <2> QED BY <1>9, <2>1 DEF SetLists, list_push, list_pop, Lists
<1>14. \A p \in Pages : next'[p] = IF p = m THEN q
                                   ELSE IF p = q THEN bucket[r] ELSE next[p]
  <2>1. [bucket EXCEPT ![a] = next[bucket[a]]][r] = bucket[r]
    BY <1>1, <1>10
  <2> QED BY <1>2, <1>5, <1>8, <1>10, <1>13, <2>1
<1>15. \A k \in Ranks : bucket'[k] = IF k = r THEN m ELSE IF k = a THEN next[m] ELSE bucket[k]
  BY <1>1, <1>2, <1>10, <1>13
<1>16. SplitsAt(n, a, m, q, w)
  <2>1. m \in Free(a)
    BY <1>2 DEF Free, FreeIn
  <2> QED BY <1>1, <1>2, <1>3, <1>4, <1>5, <1>7, <1>8, <2>1 DEF SplitsAt
<1>17. SplitMoved(n, a, m, q)
  BY <1>1, <1>9, <1>11, <1>12, <1>14, <1>15 DEF SplitMoved
<1> QED BY <1>16, <1>17

\* alloc_pages takes the first block of rank a.
TakesAt(a, m) ==
  /\ a = want /\ a = at /\ m = bucket[a] /\ a \in 1..rank_num /\ pc = "split"
  /\ rank_num \in Ranks
  /\ m \in Free(a) /\ IsBlock(rank_num, index[m], a) /\ PageOf(rank_num, index[m], a) = m
  /\ rank_num' = rank_num /\ pc' = "idle" /\ next' = next /\ rank' = rank
  /\ Free(a)' = Free(a) \ {m}
  /\ \A k \in Ranks : k # a => Free(k)' = Free(k)
  /\ \A p \in Pages : status'[p] = IF p = m THEN USED ELSE status[p]
  /\ ret' = [fn |-> "alloc_pages", arg |-> a, val |-> m * PageSize]

\* Every end of the split loop does that.
LEMMA TakeMoves ==
  ASSUME IInv, Take
  PROVE  \E a, m : TakesAt(a, m)
<1>1. PICK a \in Ranks : a = want /\ at = a /\ a \in 1..rank_num /\ bucket[a] # NULL
                      /\ pc = "split" /\ rank_num \in Ranks
  <2>1. at = want /\ want \in 1..rank_num /\ bucket[at] # NULL /\ rank_num \in 0..MaxRank
        /\ pc = "split"
    BY DEF IInv, TypInv, CallInv, Take
  <2> QED BY <2>1, SizeAssumption DEF Ranks
<1>2. PICK m \in Pages : /\ m = bucket[a]
        /\ m \in FreeIn(status, rank, a) /\ status[m] = UNUSED /\ rank[m] = a
        /\ IsBlock(rank_num, index[m], a) /\ PageOf(rank_num, index[m], a) = m
  BY <1>1, HeadOfList
<1>3. /\ rank_num' = rank_num /\ pc' = "idle" /\ rank' = rank
      /\ status' = [status EXCEPT ![m] = USED] /\ next' = next
  BY <1>1, <1>2 DEF Take, End, Begin, SetLists, list_pop, Lists
<1>4. ret' = [fn |-> "alloc_pages", arg |-> a, val |-> m * PageSize]
  <2>1. block_to_page(index[m], a) = m
    BY <1>2, PageOfBlock
  <2>2. ret' = [fn |-> "alloc_pages", arg |-> a, val |-> block_to_page(index[m], a) * PageSize]
    BY <1>1, <1>2 DEF Take, Answer
  <2> QED BY <2>1, <2>2
<1>5. \A p \in Pages : status'[p] = IF p = m THEN USED ELSE status[p]
  BY <1>3 DEF IInv, TypInv
<1>6. Free(a)' = Free(a) \ {m} /\ \A k \in Ranks : k # a => Free(k)' = Free(k)
  <2>1. \A k : \A p : p \in Free(k)' <=> p # m /\ p \in Free(k)
    BY <1>3, <1>5 DEF Free, USED, UNUSED
  <2>2. \A k : k # a => m \notin Free(k)
    BY <1>2 DEF Free
  <2> QED BY <2>1, <2>2
<1>7. m \in Free(a)
  BY <1>2 DEF Free, FreeIn
<1> QED BY <1>1, <1>2, <1>3, <1>4, <1>5, <1>6, <1>7 DEF TakesAt

-----------------------------------------------------------------------------
(* The order of addresses. *)

\* A sequence that grows at every place grows throughout.
LEMMA GrowsThroughout ==
  ASSUME NEW N \in Nat, NEW s \in [1..N -> Nat],
         \A i \in 1..N : i # N => s[i] < s[i + 1]
  PROVE  \A i, j \in 1..N : i < j => s[i] < s[j]
<1> DEFINE D == {d \in Nat : \E i \in 1..N : i + d + 1 \in 1..N /\ ~(s[i] < s[i + d + 1])}
<1>1. D = {}
  <2> SUFFICES ASSUME D # {} PROVE FALSE
    OBVIOUS
  <2>1. PICK d \in D : \A e \in D : d =< e
    <3>1. D \in SUBSET Nat
      OBVIOUS
    <3> HIDE DEF D
    <3> QED BY <3>1, Least
  <2>2. PICK i \in 1..N : d \in Nat /\ i + d + 1 \in 1..N /\ ~(s[i] < s[i + d + 1])
    OBVIOUS
  <2>3. CASE d = 0
    <3>1. i # N /\ i + d + 1 = i + 1
      BY <2>2, <2>3
    <3> QED BY <2>2, <3>1
  <2>4. CASE d # 0
    <3>1. d - 1 \in Nat /\ i + (d - 1) + 1 = i + d /\ i + d \in 1..N /\ i + d # N
          /\ (i + d) + 1 = i + d + 1 /\ ~(d =< d - 1)
      BY <2>2, <2>4
    <3>2. d - 1 \notin D
      BY <2>1, <3>1
    <3>3. s[i] < s[i + d]
      BY <3>1, <3>2
    <3>4. s[i + d] < s[i + d + 1]
      BY <3>1
    <3>5. s[i] \in Nat /\ s[i + d] \in Nat /\ s[i + d + 1] \in Nat
      BY <2>2, <3>1
    <3> QED BY <2>2, <3>3, <3>4, <3>5
  <2> QED BY <2>3, <2>4
<1> SUFFICES ASSUME NEW i \in 1..N, NEW j \in 1..N, i < j PROVE s[i] < s[j]
  OBVIOUS
<1>2. j - i - 1 \in Nat /\ i + (j - i - 1) + 1 = j
  OBVIOUS
<1>3. j - i - 1 \notin D
  BY <1>1
<1> QED BY <1>2, <1>3

\* InOrder, said of the links.
Sorted ==
  /\ \A r \in 1..rank_num : \A x \in Free(r) : next[x] # NULL => x < next[x]
  /\ \A q, r \in 1..rank_num : q < r => \A x \in Free(q), y \in Free(r) : x < y

\* What Walk(r) is: s goes through the N free blocks of rank r along next.
Steps(r, N, s) ==
  /\ s \in [1..N -> Free(r)] /\ DOMAIN s = 1..N
  /\ \A x \in Free(r) : \E i \in 1..N : s[i] = x
  /\ \A i \in 1..N : next[s[i]] = IF i = N THEN NULL ELSE s[i + 1]

\* InOrder and Sorted say the same.
LEMMA OrderOfLinks ==
  ASSUME IInv
  PROVE  InOrder <=> Sorted
<1>1. \A r \in 1..rank_num : \E N \in Nat : Steps(r, N, Walk(r))
  <2> SUFFICES ASSUME NEW r \in 1..rank_num PROVE \E N \in Nat : Steps(r, N, Walk(r))
    OBVIOUS
  <2>1. Linked(Lists, r, Free(r))
    BY DEF IInv, ListInv, Free, FreeIn
  <2>2. PICK N, s : InLine(Lists, r, Free(r), N, s)
    BY <2>1 DEF Linked
  <2>3. Free(r) \in SUBSET Pages
    BY DEF Free
  <2>4. Walk(r) = s
    BY <2>2, <2>3, WalkOfLine
  <2>5. N \in Nat /\ Steps(r, N, s)
    BY <2>2 DEF InLine, Lists, Steps
  <2> QED BY <2>4, <2>5
<1>2. \A r : Free(r) \subseteq Nat /\ NULL \notin Free(r)
  BY DEF Free, Pages, NULL
<1>3. ASSUME InOrder PROVE Sorted
  <2>1. ASSUME NEW r \in 1..rank_num, NEW x \in Free(r), next[x] # NULL PROVE x < next[x]
    <3> DEFINE s == Walk(r)
    <3>0. PICK N \in Nat : Steps(r, N, s)
      BY <1>1
    <3>1. /\ N \in Nat /\ s \in [1..N -> Free(r)] /\ DOMAIN s = 1..N
          /\ \A y \in Free(r) : \E k \in 1..N : s[k] = y
          /\ \A k \in 1..N : next[s[k]] = IF k = N THEN NULL ELSE s[k + 1]
      BY <3>0 DEF Steps
    <3>2. PICK i \in 1..N : s[i] = x
      BY <3>1
    <3>3. i # N /\ next[x] = s[i + 1] /\ i + 1 \in 1..N /\ i < i + 1
      BY <2>1, <3>1, <3>2
    <3>4. Walk(r)[i] < Walk(r)[i + 1]
      BY <1>3, <3>1, <3>3 DEF InOrder
    <3> QED BY <3>1, <3>2, <3>3, <3>4
  <2>2. ASSUME NEW q \in 1..rank_num, NEW r \in 1..rank_num, q < r,
               NEW x \in Free(q), NEW y \in Free(r)
        PROVE  x < y
    <3>0. PICK N \in Nat, M \in Nat : Steps(q, N, Walk(q)) /\ Steps(r, M, Walk(r))
      BY <1>1
    <3>1. PICK i \in DOMAIN Walk(q) : Walk(q)[i] = x
      BY <3>0 DEF Steps
    <3>2. PICK j \in DOMAIN Walk(r) : Walk(r)[j] = y
      BY <3>0 DEF Steps
    <3> QED BY <1>3, <2>2, <3>1, <3>2 DEF InOrder
  <2> QED BY <2>1, <2>2 DEF Sorted
<1>4. ASSUME Sorted PROVE InOrder
  <2> SUFFICES ASSUME NEW q \in 1..rank_num, NEW r \in 1..rank_num,
                      NEW i \in DOMAIN Walk(q), NEW j \in DOMAIN Walk(r),
                      q < r \/ (q = r /\ i < j)
               PROVE  Walk(q)[i] < Walk(r)[j]
    BY DEF InOrder
  <2>1. CASE q < r
    <3>0. PICK N \in Nat, M \in Nat : Steps(q, N, Walk(q)) /\ Steps(r, M, Walk(r))
      BY <1>1
    <3>1. Walk(q)[i] \in Free(q) /\ Walk(r)[j] \in Free(r)
      BY <3>0 DEF Steps
    <3> QED BY <1>4, <2>1, <3>1 DEF Sorted
  <2>2. CASE q = r /\ i < j
    <3> DEFINE s == Walk(r)
    <3>0. PICK N \in Nat : Steps(r, N, s)
      BY <1>1
    <3>1. /\ N \in Nat /\ s \in [1..N -> Free(r)] /\ DOMAIN s = 1..N
          /\ \A y \in Free(r) : \E k \in 1..N : s[k] = y
          /\ \A k \in 1..N : next[s[k]] = IF k = N THEN NULL ELSE s[k + 1]
      BY <3>0 DEF Steps
    <3>2. ASSUME NEW k \in 1..N, k # N PROVE s[k] < s[k + 1]
      <4>1. k + 1 \in 1..N /\ s[k] \in Free(r) /\ next[s[k]] = s[k + 1]
        BY <3>1, <3>2
      <4>2. s[k + 1] \in Free(r) /\ s[k + 1] # NULL
        BY <1>2, <3>1, <4>1
      <4> QED BY <1>4, <4>1, <4>2 DEF Sorted
    <3>3. s \in [1..N -> Nat]
      BY <1>2, <3>1
    <3>4. \A k, l \in 1..N : k < l => s[k] < s[l]
      BY <3>1, <3>2, <3>3, GrowsThroughout
    <3> QED BY <2>2, <3>1, <3>4
  <2> QED BY <2>1, <2>2
<1> QED BY <1>3, <1>4

\* In a sorted list the head is the least page.
LEMMA HeadLeast ==
  ASSUME IInv, Sorted, NEW r \in 1..rank_num, NEW y \in Free(r), y # bucket[r]
  PROVE  bucket[r] < y
<1>1. InOrder
  BY OrderOfLinks
<1>2. Linked(Lists, r, Free(r))
  BY DEF IInv, ListInv, Free, FreeIn
<1>3. PICK N, s : InLine(Lists, r, Free(r), N, s)
  BY <1>2 DEF Linked
<1>4. Free(r) \in SUBSET Pages
  BY DEF Free
<1>5. Walk(r) = s
  BY <1>3, <1>4, WalkOfLine
<1>6. /\ N \in Nat /\ s \in [1..N -> Free(r)] /\ DOMAIN s = 1..N
      /\ bucket[r] = IF N = 0 THEN NULL ELSE s[1]
  BY <1>3 DEF InLine, Lists
<1>7. PICK i \in 1..N : s[i] = y
  BY <1>3 DEF InLine
<1>8. 1 \in 1..N /\ N # 0
  BY <1>6, <1>7
<1>9. 1 < i
  BY <1>6, <1>7, <1>8
<1> QED BY <1>1, <1>5, <1>6, <1>7, <1>8, <1>9 DEF InOrder

\* Between the rank asked for and the rank that is split there is no free block.
EmptyInv == pc = "split" => \A u \in want..(at - 1) : bucket[u] = NULL

\* EmptyInv holds at first.
LEMMA EmptyInit == Init => EmptyInv
BY DEF Init, EmptyInv

\* EmptyInv is kept: the ranks passed by the scan stay empty until the split.
LEMMA EmptyNext == ASSUME IInv, EmptyInv, [Next]_vars PROVE EmptyInv'
<1>1. ASSUME NEW g \in PgCounts, init_page(g) PROVE EmptyInv'
  BY <1>1 DEF init_page, call, EmptyInv
<1>2. ASSUME NEW r \in RankArgs, AllocRefuse(r) PROVE EmptyInv'
  BY <1>2 DEF AllocRefuse, call, EmptyInv
<1>3. ASSUME NEW r \in RankArgs, AllocScan(r) PROVE EmptyInv'
  BY <1>3 DEF AllocScan, Begin, lists, EmptyInv
<1>4. CASE Split
  <2>1. PICK n, a, m, q, w : SplitsAt(n, a, m, q, w) /\ SplitMoved(n, a, m, q)
    BY <1>4, SplitMoves
  <2>2. n \in Ranks /\ want \in 1..n /\ a \in 1..n /\ a = at /\ at' = a - 1 /\ want' = want
        /\ pc = "split"
    BY <2>1 DEF SplitsAt, SplitMoved
  <2>3. ASSUME NEW u \in want..(a - 1 - 1) PROVE bucket'[u] = NULL
    <3>1. u \in Ranks /\ u # a /\ u # a - 1 /\ u \in want..(a - 1)
      BY <2>2, SizeAssumption DEF Ranks
    <3>2. bucket'[u] = bucket[u]
      BY <2>1, <3>1 DEF SplitMoved
    <3> QED BY <2>2, <3>1, <3>2 DEF EmptyInv
  <2> QED BY <2>2, <2>3 DEF EmptyInv
<1>5. CASE Take
  BY <1>5 DEF Take, End, Begin, EmptyInv
<1>6. ASSUME NEW ptr \in PtrArgs, ReturnRefuse(ptr) \/ ReturnBegin(ptr) PROVE EmptyInv'
  BY <1>6 DEF ReturnRefuse, ReturnBegin, Begin, call, EmptyInv
<1>7. CASE Merge
  BY <1>7 DEF Merge, EmptyInv
<1>8. CASE Put
  BY <1>8 DEF Put, End, Begin, EmptyInv
<1>9. CASE UNCHANGED vars
  BY <1>9 DEF vars, call, lists, EmptyInv
<1> QED BY <1>1, <1>2, <1>3, <1>4, <1>5, <1>6, <1>7, <1>8, <1>9 DEF Next

\* No turn of alloc_pages's loop, and not its end, puts a page out of order.
LEMMA SplitSorted ==
  ASSUME IInv, IInv', EmptyInv, Split, Sorted
  PROVE  Sorted'
<1>1. PICK n, a, m, q, w : SplitsAt(n, a, m, q, w) /\ SplitMoved(n, a, m, q)
  BY SplitMoves
<1>2. /\ n = rank_num /\ rank_num' = n /\ n \in Ranks /\ a \in 1..n /\ a - 1 \in 1..n
      /\ a - 1 \in want..n /\ a = at /\ want \in 1..n
      /\ m \in Free(a) /\ m \in Pages /\ q \in Pages /\ q = m + w /\ w \in Nat /\ w >= 1
      /\ a \in Int /\ m \in Nat /\ q \in Nat /\ n \in Nat /\ m = bucket[a]
  BY <1>1, SizeAssumption DEF SplitsAt, SplitMoved, Ranks, Pages
<1>3. bucket[a - 1] = NULL /\ Free(a - 1) = {}
  <2>1. bucket[a - 1] = NULL
    BY <1>1, <1>2 DEF EmptyInv, SplitsAt
  <2>2. Linked(Lists, a - 1, Free(a - 1))
    BY <1>2 DEF IInv, ListInv, Free, FreeIn
  <2>3. PICK N, s : InLine(Lists, a - 1, Free(a - 1), N, s)
    BY <2>2 DEF Linked
  <2>4. Free(a - 1) \subseteq Pages
    BY DEF Free
  <2> QED BY <2>1, <2>3, <2>4, NoPage DEF InLine, Lists
<1>4. /\ Free(a)' = Free(a) \ {m} /\ Free(a - 1)' = {m, q}
      /\ \A k \in Ranks : k # a /\ k # a - 1 => Free(k)' = Free(k)
      /\ \A p \in Pages : next'[p] = IF p = m THEN q ELSE IF p = q THEN NULL ELSE next[p]
  BY <1>1, <1>3 DEF SplitMoved
<1>5. \A k : \A p \in Free(k) : p \in Pages /\ p \in Nat /\ p # q /\ (p # m => p < m \/ m + 2 * w =< p)
  <2>1. status[q] = UNDEF
        /\ \A p \in Pages : status[p] # UNDEF /\ p # m => p < m \/ m + 2 * w =< p
    BY <1>1 DEF SplitsAt
  <2> QED BY <2>1 DEF Free, UNUSED, UNDEF, Pages
<1>6. ASSUME NEW k \in 1..n, NEW x \in Free(k)', next'[x] # NULL
      PROVE  x < next'[x]
  <2>1. k \in Ranks
    BY <1>2, SizeAssumption DEF Ranks
  <2>2. CASE x = m
    BY <1>2, <1>4, <2>2
  <2>3. CASE x = q
    BY <1>2, <1>4, <1>6, <2>3
  <2>4. CASE x # m /\ x # q
    <3>1. x \in Free(k)
      BY <1>4, <1>6, <2>1, <2>4
    <3>2. x \in Pages
      BY <1>5, <3>1
    <3>3. next'[x] = next[x]
      BY <1>4, <2>4, <3>2
    <3> QED BY <1>2, <1>6, <3>1, <3>3 DEF Sorted
  <2> QED BY <2>2, <2>3, <2>4
<1>7. ASSUME NEW k \in 1..n, NEW l \in 1..n, k < l, NEW x \in Free(k)', NEW y \in Free(l)'
      PROVE  x < y
  <2>1. k \in Ranks /\ l \in Ranks
    BY <1>2, SizeAssumption DEF Ranks
  <2>2. \A i, j \in 1..n : i < j => \A u \in Free(i), v \in Free(j) : u < v
    BY <1>2 DEF Sorted
  <2>3. CASE k = a - 1
    <3>1. x \in {m, q}
      BY <1>4, <1>7, <2>3
    <3>2. CASE l = a
      <4>1. y \in Free(a) \ {m}
        BY <1>4, <1>7, <3>2
      <4>2. m < y
        <5>1. m \in Free(a) /\ IInv
          BY <1>2
        <5> QED BY <1>2, <1>5, <4>1, HeadLeast
      <4>3. m + 2 * w =< y /\ y \in Nat
        BY <1>2, <1>5, <4>1, <4>2
      <4> QED BY <1>2, <3>1, <4>2, <4>3
    <3>3. CASE l # a
      <4>1. l > a /\ l # a - 1
        BY <1>2, <1>7, <2>3, <3>3
      <4>2. y \in Free(l)
        BY <1>4, <1>7, <2>1, <3>3, <4>1
      <4>3. m < y
        BY <1>2, <2>2, <4>1, <4>2
      <4>4. m + 2 * w =< y /\ y \in Nat
        BY <1>2, <1>5, <4>2, <4>3
      <4> QED BY <1>2, <3>1, <4>3, <4>4
    <3> QED BY <3>2, <3>3
  <2>4. CASE k # a - 1
    <3>1. x \in Free(k)
      BY <1>4, <1>7, <2>1, <2>4
    <3>2. CASE l = a - 1
      <4>1. y \in {m, q} /\ k < a
        BY <1>2, <1>4, <1>7, <3>2
      <4>2. x < m /\ x \in Nat
        BY <1>2, <1>5, <2>2, <3>1, <4>1
      <4> QED BY <1>2, <4>1, <4>2
    <3>3. CASE l # a - 1
      <4>1. y \in Free(l)
        BY <1>4, <1>7, <2>1, <3>3
      <4> QED BY <1>7, <2>2, <3>1, <4>1
    <3> QED BY <3>2, <3>3
  <2> QED BY <2>3, <2>4
<1> QED BY <1>2, <1>6, <1>7 DEF Sorted

\* The end of alloc_pages leaves the rest of the lists in order.
LEMMA TakeSorted ==
  ASSUME IInv, Take, Sorted
  PROVE  Sorted'
<1>1. PICK a, m : TakesAt(a, m)
  BY TakeMoves
<1>2. rank_num' = rank_num /\ next' = next
  BY <1>1 DEF TakesAt
<1>3. \A k \in 1..rank_num : Free(k)' \subseteq Free(k)
  <2> SUFFICES ASSUME NEW k \in 1..rank_num PROVE Free(k)' \subseteq Free(k)
    OBVIOUS
  <2>1. k \in Ranks
    BY <1>1, SizeAssumption DEF TakesAt, Ranks
  <2> QED BY <1>1, <2>1 DEF TakesAt
<1>4. ASSUME NEW k \in 1..rank_num, NEW x \in Free(k)', next'[x] # NULL
      PROVE  x < next'[x]
  BY <1>2, <1>3, <1>4 DEF Sorted
<1>5. ASSUME NEW k \in 1..rank_num, NEW l \in 1..rank_num, k < l,
             NEW x \in Free(k)', NEW y \in Free(l)'
      PROVE  x < y
  BY <1>3, <1>5 DEF Sorted
<1> QED BY <1>2, <1>4, <1>5 DEF Sorted

(* AllocKeepsOrder: alloc_pages hands a pool out in the order of addresses: if
   the free lists, one after the other by rank, are in that order, no turn of
   its split loop and not the taking of the block breaks it; alloc_pages of
   buddy.c, for pools of every size. *)
THEOREM OrderKept == ASSUME ~Shrinks PROVE Spec => AllocKeepsOrder
<1>1. Init => EmptyInv
  BY EmptyInit
<1>2. IInv /\ EmptyInv /\ [Next]_vars => EmptyInv'
  BY EmptyNext
<1>3. IInv => (InOrder <=> Sorted)
  BY OrderOfLinks
<1>4. IInv /\ IInv' /\ EmptyInv /\ [Next]_vars => [pc = "split" /\ Sorted => Sorted']_vars
  <2> SUFFICES ASSUME IInv, IInv', EmptyInv, Next, pc = "split", Sorted PROVE Sorted'
    OBVIOUS
  <2>1. Split \/ Take
    BY DEF Next, init_page, AllocRefuse, AllocScan, ReturnRefuse, ReturnBegin, Merge, Put
  <2> QED BY <2>1, SplitSorted, TakeSorted
<1> QED BY <1>1, <1>2, <1>3, <1>4, InvHolds, PTL DEF Spec, AllocKeepsOrder

-----------------------------------------------------------------------------
(* Buddies: no block and its buddy stay free beside each other. *)

Aligned(p, r) == \E k \in Nat : p = k * Width(r)

\* A product grows with its factor.
LEMMA Monotone ==
  ASSUME NEW x \in Nat, NEW y \in Nat, NEW w \in Nat
  PROVE  /\ x * w \in Nat /\ (x + 1) * w = x * w + w
         /\ x =< y => x * w =< y * w
         /\ x * w < y * w => x < y
OBVIOUS

\* The right half of an aligned block is not aligned.
LEMMA OddHalf ==
  ASSUME NEW j \in Nat, NEW k \in Nat, NEW w \in Nat, w >= 1
  PROVE  j * (2 * w) + w # k * (2 * w)
<1>1. 2 * w \in Nat
  OBVIOUS
<1>2. CASE k =< j
  <2>1. k * (2 * w) =< j * (2 * w) /\ k * (2 * w) \in Nat /\ j * (2 * w) \in Nat
    BY <1>1, <1>2, Monotone
  <2> QED BY <2>1
<1>3. CASE j + 1 =< k
  <2>1. (j + 1) * (2 * w) =< k * (2 * w) /\ k * (2 * w) \in Nat /\ j * (2 * w) \in Nat
        /\ (j + 1) * (2 * w) = j * (2 * w) + 2 * w
    BY <1>1, <1>3, Monotone
  <2> QED BY <2>1
<1> QED BY <1>2, <1>3

\* Widths are positive.
LEMMA WidthNat ==
  ASSUME NEW r \in Ranks
  PROVE  Width(r) \in Nat /\ Width(r) >= 1
<1>1. r - 1 \in 0..MaxRank
  BY SizeAssumption DEF Ranks
<1>2. Width(r) \in Nat \ {0}
  BY <1>1, ShiftAssumption DEF Width
<1> QED BY <1>2

\* A block is twice as wide as one a rank below.
LEMMA WidthDoubles ==
  ASSUME NEW r \in Ranks, r + 1 \in Ranks
  PROVE  Width(r + 1) = 2 * Width(r)
<1>1. r - 1 \in 0..MaxRank /\ r - 1 < MaxRank /\ (r - 1) + 1 = r /\ (r + 1) - 1 = r
  BY SizeAssumption DEF Ranks
<1>2. Pow2[(r - 1) + 1] = 2 * Pow2[r - 1]
  BY <1>1, Doubling
<1> QED BY <1>1, <1>2 DEF Width

\* A block begins at a multiple of its width.
LEMMA BlockAligned ==
  ASSUME NEW n \in Ranks, NEW b, NEW r, IsBlock(n, b, r)
  PROVE  Aligned(PageOf(n, b, r), r) /\ r \in Ranks
<1>1. n - r \in 0..MaxRank /\ r \in Ranks
  BY SizeAssumption DEF IsBlock, Ranks
<1>2. Pow2[n - r] \in Nat \ {0}
  BY <1>1, ShiftAssumption
<1>3. b - Pow2[n - r] + 1 \in Nat
  BY <1>2 DEF IsBlock
<1> QED BY <1>1, <1>3 DEF Aligned, PageOf, Width

\* A block and the one a width to its right are not both aligned one rank up.
LEMMA OneHalf ==
  ASSUME NEW r \in Ranks, r + 1 \in Ranks, NEW p \in Nat, Aligned(p, r + 1)
  PROVE  ~Aligned(p + Width(r), r + 1)
<1>1. Width(r + 1) = 2 * Width(r) /\ Width(r) \in Nat /\ Width(r) >= 1
  BY WidthDoubles, WidthNat
<1>2. PICK j \in Nat : p = j * (2 * Width(r))
  BY <1>1 DEF Aligned
<1> SUFFICES ASSUME NEW k \in Nat, p + Width(r) = k * (2 * Width(r)) PROVE FALSE
  BY <1>1 DEF Aligned
<1> QED BY <1>1, <1>2, OddHalf

\* Two aligned blocks that meet are nested.
LEMMA Nested ==
  ASSUME NEW u \in Ranks, NEW r \in 1..u, NEW p \in Nat, NEW x \in Nat,
         Aligned(p, u), Aligned(x, r), p < x + Width(r), x < p + Width(u)
  PROVE  p =< x /\ x + Width(r) =< p + Width(u)
<1>1. r \in Ranks /\ u - r \in 0..MaxRank /\ r - 1 \in 0..MaxRank /\ (u - r) + (r - 1) = u - 1
      /\ u - 1 \in 0..MaxRank /\ u - 1 =< MaxRank
  BY SizeAssumption DEF Ranks
<1>2. PICK w \in Nat, c \in Nat : w = Width(r) /\ c = Pow2[u - r] /\ Width(u) = c * w
  <2>1. Pow2[u - 1] = Pow2[u - r] * Pow2[r - 1]
    BY <1>1, ShiftAssumption
  <2>2. Pow2[u - r] \in Nat /\ Pow2[r - 1] \in Nat
    BY <1>1, ShiftAssumption
  <2> QED BY <2>1, <2>2 DEF Width
<1>3. PICK k \in Nat : x = k * w
  BY <1>2 DEF Aligned
<1>4. PICK i \in Nat : p = i * (c * w)
  BY <1>2 DEF Aligned
<1>5. PICK j \in Nat : p = j * w
  <2>1. i * c \in Nat /\ i * (c * w) = (i * c) * w
    OBVIOUS
  <2> QED BY <1>4, <2>1
<1>6. /\ k * w \in Nat /\ j * w \in Nat /\ c * w \in Nat /\ j + c \in Nat /\ k + 1 \in Nat
      /\ (k + 1) * w = x + w /\ (j + c) * w = p + c * w
  <2>1. (j + c) * w = j * w + c * w /\ (k + 1) * w = k * w + w
    OBVIOUS
  <2> QED BY <1>3, <1>5, <2>1
<1>7. j * w < (k + 1) * w /\ k * w < (j + c) * w
  BY <1>2, <1>3, <1>5, <1>6
<1>8. j < k + 1 /\ k < j + c
  BY <1>6, <1>7, Monotone
<1>9. j =< k /\ k + 1 =< j + c
  BY <1>8
<1>10. j * w =< k * w /\ (k + 1) * w =< (j + c) * w
  BY <1>6, <1>9, Monotone
<1> QED BY <1>2, <1>3, <1>5, <1>6, <1>10

\* What the invariant says of a page with a status.
LEMMA StartAligned ==
  ASSUME IInv, NEW p \in Pages, status[p] # UNDEF
  PROVE  /\ rank_num \in Ranks /\ rank[p] \in Ranks /\ rank[p] \in 1..rank_num /\ Aligned(p, rank[p])
         /\ p \in Nat /\ p + Width(rank[p]) =< page_num /\ page_num \in Nat
<1>1. IsBlock(rank_num, index[p], rank[p]) /\ PageOf(rank_num, index[p], rank[p]) = p
  BY DEF IInv, BlockInv
<1>2. rank_num \in Ranks /\ rank[p] \in Ranks /\ rank[p] \in 1..rank_num
  BY <1>1, SizeAssumption DEF IInv, TypInv, IsBlock, Ranks
<1>3. p \in Nat /\ p + Width(rank[p]) =< Pow2[rank_num - 1]
  BY <1>1, <1>2, BlockInPool
<1>4. page_num \in Nat
  BY <1>2, WidthNat DEF page_num, Width
<1> QED BY <1>1, <1>2, <1>3, <1>4, BlockAligned DEF page_num

\* A free block and its buddy are both free only between a split and the next
\* step: the two halves are at the head of their list.
TwinInv ==
  \A r \in 1..(rank_num - 1) : \A p \in Free(r) :
    Aligned(p, r + 1) /\ p + Width(r) \in Free(r) =>
      pc = "split" /\ r = at /\ p = bucket[at]

\* TwinInv holds at first.
LEMMA TwinInit == Init => TwinInv
BY SizeAssumption DEF Init, TwinInv

\* What Merge does to the free blocks: its buddy d is one no more.
LEMMA MergeMoves ==
  ASSUME IInv, Merge
  PROVE  \E m, d \in Pages :
           /\ m = block_to_page(block, at) /\ status[m] # UNUSED /\ status[d] = UNUSED
           /\ pc = "merge" /\ rank_num \in Ranks
           /\ \A p \in Pages : status'[p] = IF p \in {m, d} THEN UNDEF ELSE status[p]
           /\ block_to_page(block, at)' \in {m, d}
           /\ \A k : Free(k)' \subseteq Free(k)
           /\ UNCHANGED <<rank_num, rank, pc, ret>>
<1>1. PICK n \in Ranks, a \in Ranks, b \in Nat, m \in Pages :
           /\ n = rank_num /\ a = at /\ b = block /\ m = block_to_page(block, at)
           /\ m = PageOf(n, b, a) /\ IsBlock(n, b, a) /\ a \in 1..n
           /\ status[m] # UNUSED
  BY HeldBlock DEF Merge
<1>2. a < n
  BY <1>1 DEF Merge, Merges
<1>3. /\ IsBlock(n, BUDDY(b), a) /\ IsBlock(n, PARENT(b), a + 1)
      /\ PageOf(n, PARENT(b), a + 1) \in {m, PageOf(n, BUDDY(b), a)}
  BY <1>1, <1>2, Buddies
<1>4. PICK d \in Pages : d = PageOf(n, BUDDY(b), a)
  BY <1>1, <1>3, BlockInPool
<1>5. d = block_to_page(BUDDY(block), at)
  BY <1>1, <1>4, PageOfBlock
<1>6. status[d] = UNUSED
  BY <1>5 DEF Merge, Merges
<1>7. /\ status' = [status EXCEPT ![m] = UNDEF, ![d] = UNDEF]
      /\ at' = a + 1 /\ block' = PARENT(b) /\ pc = "merge"
      /\ UNCHANGED <<rank_num, rank, pc, ret>>
  BY <1>1, <1>5 DEF Merge
<1>8. \A p \in Pages : status'[p] = IF p \in {m, d} THEN UNDEF ELSE status[p]
  BY <1>7 DEF IInv, TypInv
<1>9. \A k : Free(k)' \subseteq Free(k)
  <2> SUFFICES ASSUME NEW k, NEW p \in Free(k)' PROVE p \in Free(k)
    OBVIOUS
  <2>1. p \in Pages /\ status'[p] = UNUSED /\ rank'[p] = k
    BY DEF Free
  <2>2. rank' = rank
    BY <1>7
  <2> QED BY <1>8, <2>1, <2>2 DEF Free, UNDEF, UNUSED
<1>10. block_to_page(block, at)' = PageOf(n, PARENT(b), a + 1)
  BY <1>1, <1>7 DEF block_to_page, PageOf, Width
<1>11. block_to_page(block, at)' \in {m, d}
  BY <1>3, <1>4, <1>10
<1>12. UNCHANGED <<rank_num, rank, pc, ret>> /\ pc = "merge"
  BY <1>7
<1> QED BY <1>1, <1>4, <1>6, <1>8, <1>9, <1>11, <1>12

\* What Put does: the block m it held is free, and its buddy d is not.
LEMMA PutMoves ==
  ASSUME IInv, Put
  PROVE  \E a \in Ranks, m \in Pages :
           /\ a = at /\ m = block_to_page(block, at) /\ pc = "merge" /\ rank_num \in Ranks
           /\ a \in 1..rank_num /\ Aligned(m, a)
           /\ \A p \in Pages : status'[p] = IF p = m THEN UNUSED ELSE status[p]
           /\ \A p \in Pages : rank'[p] = IF p = m THEN a ELSE rank[p]
           /\ Free(a)' = Free(a) \cup {m}
           /\ \A k \in Ranks : k # a => Free(k)' = Free(k)
           /\ rank_num' = rank_num /\ pc' = "idle" /\ ret' = ret
           /\ a < rank_num => \E d \in Pages :
                /\ d \notin Free(a)
                /\ (d = m + Width(a) /\ Aligned(m, a + 1)) \/ (m = d + Width(a) /\ Aligned(d, a + 1))
<1>1. PICK n \in Ranks, a \in Ranks, b \in Nat, m \in Pages :
           /\ n = rank_num /\ a = at /\ b = block /\ m = block_to_page(block, at)
           /\ m = PageOf(n, b, a) /\ IsBlock(n, b, a) /\ a \in 1..n
           /\ status[m] # UNUSED
  BY HeldBlock DEF Put
<1>2. /\ status' = [status EXCEPT ![m] = UNUSED]
      /\ rank' = [rank EXCEPT ![m] = a]
      /\ pc' = "idle" /\ rank_num' = rank_num /\ ret' = ret /\ pc = "merge"
  BY <1>1 DEF Put, End, Begin
<1>3. \A p \in Pages : /\ status'[p] = IF p = m THEN UNUSED ELSE status[p]
                       /\ rank'[p] = IF p = m THEN a ELSE rank[p]
  BY <1>2 DEF IInv, TypInv
<1>4. Free(a)' = Free(a) \cup {m} /\ \A k \in Ranks : k # a => Free(k)' = Free(k)
  <2>1. \A k : m \notin Free(k)
    BY <1>1 DEF Free
  <2>2. \A k : \A p : p \in Free(k)' <=> (p = m /\ k = a) \/ p \in Free(k)
    BY <1>1, <1>3, <2>1 DEF Free
  <2> QED BY <2>1, <2>2
<1>5. ASSUME a < n
      PROVE \E d \in Pages :
              /\ d \notin Free(a)
              /\ (d = m + Width(a) /\ Aligned(m, a + 1)) \/ (m = d + Width(a) /\ Aligned(d, a + 1))
  <2>1. /\ IsBlock(n, BUDDY(b), a) /\ IsBlock(n, PARENT(b), a + 1)
        /\ \/ /\ PageOf(n, BUDDY(b), a) = m + Width(a)
              /\ PageOf(n, PARENT(b), a + 1) = m
           \/ /\ m = PageOf(n, BUDDY(b), a) + Width(a)
              /\ PageOf(n, PARENT(b), a + 1) = PageOf(n, BUDDY(b), a)
    BY <1>1, <1>5, Buddies
  <2>2. PICK d \in Pages : d = PageOf(n, BUDDY(b), a)
    BY <1>1, <2>1, BlockInPool
  <2>3. d = block_to_page(BUDDY(block), at)
    BY <1>1, <2>2, PageOfBlock
  <2>4. d \notin Free(a)
    BY <1>1, <1>5, <2>3 DEF Put, Merges, Free
  <2>5. Aligned(PageOf(n, PARENT(b), a + 1), a + 1)
    BY <2>1, BlockAligned
  <2> QED BY <2>1, <2>2, <2>4, <2>5
<1>6. Aligned(m, a)
  BY <1>1, BlockAligned
<1> QED BY <1>1, <1>2, <1>3, <1>4, <1>5, <1>6
\* A split makes one pair of free buddies, at the head of its list.
LEMMA TwinSplit ==
  ASSUME IInv, TwinInv, Split
  PROVE  TwinInv'
<1>1. PICK n, a, m, q, w : SplitsAt(n, a, m, q, w) /\ SplitMoved(n, a, m, q)
  BY SplitMoves
<1>2. /\ n = rank_num /\ rank_num' = n /\ n \in Ranks /\ a \in 1..n /\ a - 1 \in 1..n /\ a = at
      /\ pc = "split" /\ pc' = "split" /\ at' = a - 1 /\ m = bucket[a] /\ m \in Free(a)
      /\ m \in Nat /\ w \in Nat /\ w >= 1 /\ q = m + w /\ w = Width(a - 1)
      /\ a \in Ranks /\ a - 1 \in Ranks /\ (a - 1) + 1 = a /\ a \in Int
  BY <1>1, SizeAssumption DEF SplitsAt, SplitMoved, Ranks, Pages
<1>3. Aligned(m, a) /\ ~Aligned(q, a) /\ status[q] = UNDEF
  <2>1. Aligned(m, a)
    BY <1>1, BlockAligned DEF SplitsAt
  <2>2. ~Aligned(m + Width(a - 1), a)
    BY <1>2, <2>1, OneHalf
  <2> QED BY <1>1, <1>2, <2>1, <2>2 DEF SplitsAt
<1>4. /\ Free(a)' = Free(a) \ {m} /\ Free(a - 1)' = Free(a - 1) \cup {m, q}
      /\ \A k \in Ranks : k # a /\ k # a - 1 => Free(k)' = Free(k)
      /\ bucket'[a - 1] = m
  BY <1>1, <1>2 DEF SplitMoved
<1> SUFFICES ASSUME NEW r \in 1..(n - 1), NEW p \in Free(r)', Aligned(p, r + 1),
                    p + Width(r) \in Free(r)'
             PROVE  r = a - 1 /\ p = m
  BY <1>2, <1>4 DEF TwinInv, Aligned, Width
<1>5. r \in Ranks /\ r + 1 \in Ranks
  BY <1>2, SizeAssumption DEF Ranks
<1>6. \A x \in Free(r) : Aligned(x, r + 1) /\ x + Width(r) \in Free(r) => r = a /\ x = m
  BY <1>2 DEF TwinInv
<1>7. CASE r = a
  <2>1. p \in Free(a) /\ p # m /\ p + Width(r) \in Free(r)
    BY <1>4, <1>7
  <2> QED BY <1>6, <1>7, <2>1
<1>8. CASE r = a - 1
  <2>1. CASE p = m
    BY <1>8, <2>1
  <2>2. CASE p = q
    BY <1>2, <1>3, <1>8, <2>2
  <2>3. CASE p # m /\ p # q
    <3>1. p \in Free(r) /\ p \in Nat
      BY <1>4, <1>8, <2>3 DEF Free, Pages
    <3>2. p + Width(r) # q
      BY <1>2, <1>8, <2>3, <3>1
    <3>3. p + Width(r) # m
      <4>1. ~Aligned(p + Width(r), r + 1)
        BY <1>5, <3>1, OneHalf
      <4> QED BY <1>2, <1>3, <1>8, <4>1
    <3>4. p + Width(r) \in Free(r)
      BY <1>4, <1>8, <3>2, <3>3
    <3> QED BY <1>2, <1>6, <1>8, <3>1, <3>4
  <2> QED BY <2>1, <2>2, <2>3
<1>9. CASE r # a /\ r # a - 1
  <2>1. Free(r)' = Free(r)
    BY <1>4, <1>5, <1>9
  <2> QED BY <1>6, <1>9, <2>1
<1> QED BY <1>7, <1>8, <1>9

\* The first half of a split is taken: the pair is no more.
LEMMA TwinTake ==
  ASSUME IInv, TwinInv, Take
  PROVE  TwinInv'
<1>1. PICK a, m : TakesAt(a, m)
  BY TakeMoves
<1>2. /\ a = at /\ m = bucket[a] /\ a \in 1..rank_num /\ rank_num \in Ranks
      /\ rank_num' = rank_num /\ Free(a)' = Free(a) \ {m}
      /\ \A k \in Ranks : k # a => Free(k)' = Free(k)
  BY <1>1 DEF TakesAt
<1> SUFFICES ASSUME NEW r \in 1..(rank_num - 1), NEW p \in Free(r)', Aligned(p, r + 1),
                    p + Width(r) \in Free(r)'
             PROVE  FALSE
  BY <1>2 DEF TwinInv, Aligned, Width
<1>3. r \in Ranks
  BY <1>2, SizeAssumption DEF Ranks
<1>4. p \in Free(r) /\ p + Width(r) \in Free(r) /\ (r = a => p # m)
  BY <1>2, <1>3
<1> QED BY <1>2, <1>4 DEF TwinInv

\* A merge frees no block.
LEMMA TwinMerge ==
  ASSUME IInv, TwinInv, Merge
  PROVE  TwinInv'
<1>1. /\ pc = "merge" /\ \A k : Free(k)' \subseteq Free(k)
      /\ rank_num' = rank_num
  BY MergeMoves
<1> SUFFICES ASSUME NEW r \in 1..(rank_num - 1), NEW p \in Free(r)', Aligned(p, r + 1),
                    p + Width(r) \in Free(r)'
             PROVE  FALSE
  BY <1>1 DEF TwinInv, Aligned, Width
<1>2. p \in Free(r) /\ p + Width(r) \in Free(r)
  BY <1>1
<1> QED BY <1>1, <1>2 DEF TwinInv

\* The block put back has no free buddy: return_pages would have merged it.
LEMMA TwinPut ==
  ASSUME IInv, TwinInv, Put
  PROVE  TwinInv'
<1>1. PICK a \in Ranks, m \in Pages :
        /\ pc = "merge" /\ rank_num \in Ranks
        /\ a \in 1..rank_num
        /\ Free(a)' = Free(a) \cup {m}
        /\ \A k \in Ranks : k # a => Free(k)' = Free(k)
        /\ rank_num' = rank_num
        /\ a < rank_num => \E d \in Pages :
             /\ d \notin Free(a)
             /\ (d = m + Width(a) /\ Aligned(m, a + 1)) \/ (m = d + Width(a) /\ Aligned(d, a + 1))
  BY PutMoves
<1> SUFFICES ASSUME NEW r \in 1..(rank_num - 1), NEW p \in Free(r)', Aligned(p, r + 1),
                    p + Width(r) \in Free(r)'
             PROVE  FALSE
  BY <1>1 DEF TwinInv, Aligned, Width
<1>2. r \in Ranks /\ r + 1 \in Ranks /\ r < rank_num
  BY <1>1, SizeAssumption DEF Ranks
<1>3. \A x \in Free(r) : Aligned(x, r + 1) => x + Width(r) \notin Free(r)
  BY <1>1 DEF TwinInv
<1>4. CASE r # a
  <2>1. Free(r)' = Free(r)
    BY <1>1, <1>2, <1>4
  <2> QED BY <1>3, <2>1
<1>5. CASE r = a
  <2>1. PICK d \in Pages :
          /\ d \notin Free(r)
          /\ (d = m + Width(r) /\ Aligned(m, r + 1)) \/ (m = d + Width(r) /\ Aligned(d, r + 1))
    BY <1>1, <1>2, <1>5
  <2>2. Width(r) \in Nat /\ Width(r) >= 1 /\ m \in Nat /\ d \in Nat /\ p \in Nat
    BY <1>2, WidthNat DEF Pages, Free
  <2>3. p \in Free(r) \cup {m} /\ p + Width(r) \in Free(r) \cup {m}
    BY <1>1, <1>5
  <2>4. CASE d = m + Width(r) /\ Aligned(m, r + 1)
    <3>1. p # m
      <4> SUFFICES ASSUME p = m PROVE FALSE
        OBVIOUS
      <4>1. p + Width(r) = d /\ d # m
        BY <2>2, <2>4
      <4> QED BY <2>1, <2>3, <4>1
    <3>2. p + Width(r) # m
      <4>1. ~Aligned(p + Width(r), r + 1)
        BY <1>2, <2>2, OneHalf
      <4> QED BY <2>4, <4>1
    <3> QED BY <1>3, <2>3, <3>1, <3>2
  <2>5. CASE m = d + Width(r) /\ Aligned(d, r + 1)
    <3>1. p # m
      <4>1. ~Aligned(d + Width(r), r + 1)
        BY <1>2, <2>2, <2>5, OneHalf
      <4> QED BY <2>5, <4>1
    <3>2. p + Width(r) # m
      <4> SUFFICES ASSUME p + Width(r) = m PROVE FALSE
        OBVIOUS
      <4>1. p = d
        BY <2>2, <2>5
      <4> QED BY <2>1, <2>3, <3>1, <4>1
    <3> QED BY <1>3, <2>3, <3>1, <3>2
  <2> QED BY <2>1, <2>4, <2>5
<1> QED BY <1>4, <1>5

\* After init_page only page 0 has a status: what it does not clear was never
\* used, the pool being no smaller than the last.
LEMMA OnePage ==
  ASSUME IInv, ~Shrinks, NEW g \in PgCounts, init_page(g)
  PROVE  /\ rank_num' \in Ranks /\ IsRankNum(rank_num', g) /\ 0 \in Pages
         /\ rank'[0] = rank_num' /\ pc = "idle" /\ pc' = "idle"
         /\ \A p \in Pages : status'[p] = IF p = 0 THEN UNUSED ELSE UNDEF
<1>1. PICK n \in Ranks :
       /\ IsRankNum(n, g) /\ rank_num =< n /\ rank_num' = n
       /\ status' = [p \in Pages |-> IF p = 0 THEN UNUSED
                                     ELSE IF p < g THEN UNDEF ELSE status[p]]
       /\ rank'   = [p \in Pages |-> IF p = 0 THEN n
                                     ELSE IF p < g THEN 0 ELSE rank[p]]
  BY DEF init_page
<1>2. n - 1 \in 0..MaxRank /\ MaxRank \in 0..MaxRank /\ g \in Nat /\ n \in Nat
  BY SizeAssumption, ArgAssumption DEF Ranks
<1>3. Pow2[n - 1] \in Nat \ {0} /\ Pow2[MaxRank] \in Nat \ {0}
  BY <1>2, ShiftAssumption
<1>4. Pow2[n - 1] =< g /\ 0 \in Pages
  BY <1>1, <1>3 DEF IsRankNum, Pages
<1>5. \A p \in Pages : p >= g => status[p] = UNDEF
  <2> SUFFICES ASSUME NEW p \in Pages, status[p] # UNDEF PROVE p < g
    BY <1>2 DEF Pages
  <2>1. /\ rank_num \in Ranks /\ rank[p] \in Ranks
        /\ p \in Nat /\ p + Width(rank[p]) =< page_num /\ page_num \in Nat
    BY StartAligned
  <2>2. rank_num - 1 \in 0..MaxRank /\ n - 1 \in (rank_num - 1)..MaxRank
    BY <1>1, <1>2, <2>1, SizeAssumption DEF Ranks
  <2>3. Width(rank[p]) \in Nat /\ Width(rank[p]) >= 1
    BY <2>1, WidthNat
  <2>4. page_num =< Pow2[n - 1]
    BY <2>2, Powers DEF page_num
  <2> QED BY <1>2, <1>3, <1>4, <2>1, <2>3, <2>4
<1>6. \A p \in Pages : status'[p] = IF p = 0 THEN UNUSED ELSE UNDEF
  BY <1>1, <1>2, <1>5 DEF Pages
<1>7. pc = "idle" /\ pc' = "idle"
  BY DEF init_page, call
<1> QED BY <1>1, <1>4, <1>6, <1>7

\* A fresh pool is one block.
LEMMA TwinInitPage ==
  ASSUME IInv, IInv', ~Shrinks, NEW g \in PgCounts, init_page(g)
  PROVE  TwinInv'
<1>1. /\ rank_num' \in Ranks /\ rank'[0] = rank_num'
      /\ \A p \in Pages : status'[p] = IF p = 0 THEN UNUSED ELSE UNDEF
  BY OnePage
<1>2. \A r \in 1..(rank_num' - 1) : Free(r)' = {}
  <2> SUFFICES ASSUME NEW r, r \in 1..(rank_num' - 1), NEW p \in Free(r)' PROVE FALSE
    OBVIOUS
  <2>1. p \in Pages /\ status'[p] = UNUSED /\ rank'[p] = r
    BY DEF Free
  <2>2. p = 0
    BY <1>1, <2>1 DEF UNUSED, UNDEF
  <2>3. rank_num' \in Nat
    BY <1>1, SizeAssumption DEF Ranks
  <2>4. r = rank_num'
    BY <1>1, <2>1, <2>2
  <2>5. r # rank_num'
    <3>1. \A n \in Nat : \A k \in 1..(n - 1) : k # n
      OBVIOUS
    <3> QED BY <2>3, <3>1
  <2> QED BY <2>4, <2>5
<1> QED BY <1>2 DEF TwinInv

\* Every step keeps TwinInv.
LEMMA TwinNext == ASSUME IInv, IInv', ~Shrinks, TwinInv, [Next]_vars PROVE TwinInv'
<1>1. ASSUME NEW g \in PgCounts, init_page(g) PROVE TwinInv'
  BY <1>1, TwinInitPage
<1>2. ASSUME pc # "split", UNCHANGED <<status, rank, rank_num>> PROVE TwinInv'
  BY <1>2 DEF TwinInv, Free, Aligned, Width
<1>3. ASSUME NEW r \in RankArgs, AllocRefuse(r) \/ AllocScan(r) PROVE TwinInv'
  BY <1>2, <1>3 DEF AllocRefuse, AllocScan
<1>4. CASE Split
  BY <1>4, TwinSplit
<1>5. CASE Take
  BY <1>5, TwinTake
<1>6. ASSUME NEW ptr \in PtrArgs, ReturnRefuse(ptr) \/ ReturnBegin(ptr) PROVE TwinInv'
  BY <1>2, <1>6 DEF ReturnRefuse, ReturnBegin
<1>7. CASE Merge
  BY <1>7, TwinMerge
<1>8. CASE Put
  BY <1>8, TwinPut
<1>9. CASE UNCHANGED vars
  BY <1>9 DEF vars, call, lists, TwinInv, Free, Aligned, Width
<1> QED BY <1>1, <1>3, <1>4, <1>5, <1>6, <1>7, <1>8, <1>9 DEF Next

\* No caller holds a page of the width of rank r from p on.
Clear(p, r) ==
  /\ p \in Nat /\ Aligned(p, r) /\ p + Width(r) =< page_num
  /\ \A y \in Pages : status[y] = USED => y + Width(rank[y]) =< p \/ p + Width(r) =< y

\* One free block covers it all.
Within(p, r) ==
  \E u \in r..rank_num : \E f \in Free(u) : f =< p /\ p + Width(r) =< f + Width(u)

\* Between calls, the page x of the pool is in a block, used or free.
LEMMA PageInBlock ==
  ASSUME IInv, pc = "idle", rank_num # 0, NEW x \in Nat, x < page_num
  PROVE  \E y \in Pages : /\ status[y] # UNDEF /\ y =< x /\ x < y + Width(rank[y])
<1>1. Tiles(Starts, Widths, page_num)
  BY DEF IInv, TileInv
<1>2. rank_num \in Ranks
  BY SizeAssumption DEF IInv, TypInv, Ranks
<1>3. page_num \in Nat
  BY <1>2, WidthNat DEF page_num, Width
<1>4. PICK y \in Starts : y =< x /\ x < y + Widths[y]
  BY <1>1, <1>3 DEF Tiles
<1>5. y \in Pages /\ status[y] # UNDEF /\ Widths[y] = Width(rank[y])
  BY DEF Starts, Widths, Returned
<1> QED BY <1>4, <1>5

\* What is left free has been merged: a range as wide as a block, of which no
\* caller holds a page, is inside one free block.
LEMMA Coalesced ==
  ASSUME IInv, TwinInv, pc = "idle", NEW r \in 1..rank_num, NEW p, Clear(p, r)
  PROVE  Within(p, r)
<1>0. rank_num \in Nat /\ rank_num # 0 /\ \A k \in 1..rank_num : k \in Ranks
  BY SizeAssumption DEF IInv, TypInv, Ranks
<1> DEFINE D == {k \in 1..rank_num : \E x : Clear(x, k) /\ ~Within(x, k)}
<1> SUFFICES ASSUME D # {} PROVE FALSE
  OBVIOUS
<1>1. PICK k \in D : \A l \in D : k =< l
  <2>1. D \in SUBSET Nat
    OBVIOUS
  <2> HIDE DEF D
  <2> QED BY <2>1, Least
<1>2. PICK x : Clear(x, k) /\ ~Within(x, k)
  OBVIOUS
<1>3. /\ k \in 1..rank_num /\ k \in Ranks /\ x \in Nat /\ Aligned(x, k) /\ x + Width(k) =< page_num
      /\ Width(k) \in Nat /\ Width(k) >= 1 /\ k \in Nat
      /\ \A y \in Pages : status[y] = USED => y + Width(rank[y]) =< x \/ x + Width(k) =< y
  BY <1>0, <1>2, WidthNat DEF Clear
\* A free block at least as wide that meets the range covers it.
<1>4. ASSUME NEW y \in Pages, status[y] = UNUSED, NEW u, rank[y] = u, u >= k,
             y < x + Width(k), x < y + Width(u)
      PROVE  FALSE
  <2>1. u \in Ranks /\ u \in 1..rank_num /\ Aligned(y, u) /\ y \in Nat
    BY <1>4, StartAligned DEF UNUSED, UNDEF
  <2>2. k \in 1..u /\ u \in k..rank_num
    BY <1>3, <1>4, <2>1
  <2>3. y =< x /\ x + Width(k) =< y + Width(u)
    BY <1>3, <1>4, <2>1, <2>2, Nested
  <2>4. y \in Free(u)
    BY <1>4 DEF Free
  <2> QED BY <1>2, <2>2, <2>3, <2>4 DEF Within
<1>5. \A z \in Nat : x =< z /\ z < x + Width(k) =>
        \E y \in Pages : /\ status[y] = UNUSED /\ y =< z /\ z < y + Width(rank[y]) /\ rank[y] < k
                         /\ rank[y] \in Ranks /\ rank[y] \in 1..rank_num
  <2> SUFFICES ASSUME NEW z \in Nat, x =< z, z < x + Width(k)
               PROVE  \E y \in Pages : /\ status[y] = UNUSED /\ y =< z /\ z < y + Width(rank[y])
                                       /\ rank[y] < k /\ rank[y] \in Ranks /\ rank[y] \in 1..rank_num
    OBVIOUS
  <2>1. z < page_num
    <3>1. page_num \in Nat
      BY <1>0, WidthNat DEF page_num, Width
    <3> QED BY <1>3, <3>1
  <2>2. PICK y \in Pages : status[y] # UNDEF /\ y =< z /\ z < y + Width(rank[y])
    BY <1>0, <2>1, PageInBlock
  <2>3. rank[y] \in Ranks /\ y \in Nat /\ Width(rank[y]) \in Nat /\ rank[y] \in 1..rank_num
    BY <2>2, StartAligned, WidthNat
  <2>4. y < x + Width(k) /\ x < y + Width(rank[y])
    BY <1>3, <2>2, <2>3
  <2>5. status[y] # USED
    BY <1>3, <2>3, <2>4
  <2>6. status[y] = UNUSED
    BY <2>2, <2>5 DEF IInv, TypInv
  <2>7. ~(rank[y] >= k)
    BY <1>4, <2>4, <2>6
  <2>8. rank[y] < k
    BY <1>3, <2>3, <2>7 DEF Ranks
  <2> QED BY <2>2, <2>3, <2>6, <2>8
<1>6. CASE k = 1
  <2>1. x =< x /\ x < x + Width(k)
    BY <1>3
  <2>2. \E y \in Pages : rank[y] < k /\ rank[y] \in Ranks
    BY <1>3, <1>5, <2>1
  <2> QED BY <1>6, <2>2 DEF Ranks
<1>7. CASE k # 1
  <2>1. PICK l \in Ranks : l = k - 1 /\ l + 1 = k /\ l \in 1..rank_num /\ ~(k =< l)
                           /\ l \in 1..(rank_num - 1) /\ l >= 1
    <3>1. k - 1 \in 1..rank_num /\ (k - 1) + 1 = k /\ ~(k =< k - 1) /\ k - 1 \in 1..(rank_num - 1)
      BY <1>0, <1>3, <1>7
    <3> QED BY <1>0, <3>1
  <2>2. Width(k) = 2 * Width(l) /\ Width(l) \in Nat /\ Width(l) >= 1
    BY <1>3, <2>1, WidthDoubles, WidthNat
  <2>3. Clear(x, l) /\ Clear(x + Width(l), l)
    <3>1. Aligned(x, l) /\ Aligned(x + Width(l), l)
      <4>1. PICK j \in Nat : x = j * (2 * Width(l))
        BY <1>3, <2>2 DEF Aligned
      <4>2. 2 * j \in Nat /\ 2 * j + 1 \in Nat
            /\ \A v \in Nat : j * (2 * v) = (2 * j) * v /\ (2 * j + 1) * v = j * (2 * v) + v
        OBVIOUS
      <4>3. x = (2 * j) * Width(l) /\ x + Width(l) = (2 * j + 1) * Width(l)
        BY <2>2, <4>1, <4>2
      <4> QED BY <4>2, <4>3 DEF Aligned
    <3>2. page_num \in Nat
      BY <1>0, WidthNat DEF page_num, Width
    <3>3. \A y \in Pages : status[y] = USED =>
            /\ y + Width(rank[y]) =< x \/ x + Width(l) =< y
            /\ y + Width(rank[y]) =< x + Width(l) \/ (x + Width(l)) + Width(l) =< y
      <4> SUFFICES ASSUME NEW y \in Pages, status[y] = USED
                   PROVE  /\ y + Width(rank[y]) =< x \/ x + Width(l) =< y
                          /\ y + Width(rank[y]) =< x + Width(l) \/ (x + Width(l)) + Width(l) =< y
        OBVIOUS
      <4>1. y \in Nat /\ Width(rank[y]) \in Nat
        BY StartAligned, WidthNat DEF USED, UNDEF
      <4>2. y + Width(rank[y]) =< x \/ x + Width(k) =< y
        BY <1>3
      <4> QED BY <1>3, <2>2, <4>1, <4>2
    <3> QED BY <1>3, <2>2, <3>1, <3>2, <3>3 DEF Clear
  <2>4. Within(x, l) /\ Within(x + Width(l), l)
    <3>1. l \notin D
      BY <1>1, <2>1
    <3> QED BY <2>1, <2>3, <3>1
  \* Each half is a free block of its own, so the two are twins.
  <2>5. ASSUME NEW z \in Nat, Aligned(z, l), x =< z, z + Width(l) =< x + Width(k), Within(z, l)
        PROVE  z \in Free(l)
    <3>1. PICK u \in l..rank_num : \E f \in Free(u) : f =< z /\ z + Width(l) =< f + Width(u)
      BY <2>5 DEF Within
    <3>0. PICK f \in Free(u) : f =< z /\ z + Width(l) =< f + Width(u)
      BY <3>1
    <3>2. f \in Pages /\ status[f] = UNUSED /\ rank[f] = u
      BY DEF Free
    <3>3. u \in Ranks /\ Aligned(f, u) /\ f \in Nat /\ Width(u) \in Nat
      BY <3>2, StartAligned, WidthNat DEF UNUSED, UNDEF
    <3>4. f < x + Width(k) /\ x < f + Width(u)
      BY <1>3, <2>2, <2>5, <3>0, <3>3
    <3>5. ~(u >= k)
      BY <1>4, <3>2, <3>4
    <3>6. u = l
      BY <1>3, <2>1, <3>1, <3>5
    <3>7. f = z
      BY <2>2, <3>0, <3>3, <3>6
    <3> QED BY <3>6, <3>7
  <2>6. x \in Free(l) /\ x + Width(l) \in Free(l)
    BY <1>3, <2>2, <2>3, <2>4, <2>5 DEF Clear
  <2> QED BY <1>3, <2>1, <2>6 DEF TwinInv
<1> QED BY <1>6, <1>7

-----------------------------------------------------------------------------
(* The blocks of BuddyAbs. *)

\* Division of a page number by a width.
LEMMA Modulo ==
  ASSUME NEW p \in Nat, NEW w \in Nat, w >= 1
  PROVE  /\ p % w \in Nat /\ p % w < w /\ p \div w \in Nat
         /\ p - (p % w) = (p \div w) * w /\ p - (p % w) \in Nat
         /\ \A k \in Nat : p = k * w => p % w = 0 /\ p \div w = k
<1>1. p % w \in Nat /\ p % w < w
  OBVIOUS
<1>2. p \div w \in Nat
  OBVIOUS
<1>3. p % w = p - w * (p \div w)
  OBVIOUS
<1>4. w * (p \div w) \in Nat /\ w * (p \div w) = (p \div w) * w
  BY <1>2
<1>5. p - (p % w) = w * (p \div w)
  <2>1. \A a, b, c \in Nat : a = b - c => b - a = c
    OBVIOUS
  <2> QED BY <1>1, <1>3, <1>4, <2>1
<1>6. ASSUME NEW k \in Nat, p = k * w PROVE p % w = 0 /\ p \div w = k
  <2>1. (k * w) % w = 0
    OBVIOUS
  <2>2. (k * w) \div w = k
    OBVIOUS
  <2> QED BY <1>6, <2>1, <2>2
<1> QED BY <1>1, <1>2, <1>4, <1>5, <1>6

\* An aligned block that begins in the pool ends in it.
LEMMA FitsInPool ==
  ASSUME rank_num \in Ranks, NEW r \in 1..rank_num, NEW p \in Nat, Aligned(p, r), p < page_num
  PROVE  p + Width(r) =< page_num
<1>1. page_num = Width(rank_num) /\ Width(rank_num) \in Nat /\ r \in Ranks
  BY WidthNat, SizeAssumption DEF page_num, Width, Ranks
<1>2. Width(r) \in Nat /\ Width(r) >= 1
  BY <1>1, WidthNat
<1>3. Aligned(0, rank_num)
  <2>1. 0 = 0 * Width(rank_num)
    BY <1>1
  <2> QED BY <2>1 DEF Aligned
<1>4. 0 < p + Width(r) /\ p < 0 + Width(rank_num)
  BY <1>1, <1>2
<1>5. 0 =< p /\ p + Width(r) =< 0 + Width(rank_num)
  BY <1>3, <1>4, Nested
<1> QED BY <1>1, <1>5

\* The blocks of the callers.
UsedSet ==
  {<<p, rank[p]>> : p \in {q \in Pages :
              /\ status[q] = USED
              /\ pc = "merge" => q # block_to_page(block, at)}}

\* FreeBlocks of BuddyAbs are the clear ranges.
LEMMA FreeBlocksAre ==
  ASSUME IInv, pc # "merge", NEW r \in 1..rank_num
  PROVE  Abs!FreeBlocks(r) = {p \in Nat : Clear(p, r)}
<1>1. rank_num \in Ranks /\ r \in Ranks /\ rank_num # 0
  BY SizeAssumption DEF IInv, TypInv, Ranks
<1>2. Width(r) \in Nat /\ Width(r) >= 1 /\ page_num \in Nat
  BY <1>1, WidthNat DEF page_num, Width
<1>3. UsedSet = {<<p, rank[p]>> : p \in {q \in Pages : status[q] = USED}}
  BY DEF UsedSet
<1>4. Abs!PoolPages = 0..(page_num - 1)
  BY DEF Abs!PoolPages, Abs!Width, page_num
<1>5. Abs!FreeBlocks(r) =
        {p \in Abs!PoolPages :
           /\ p % Width(r) = 0
           /\ \A u \in UsedSet : (p..(p + Width(r) - 1)) \cap (u[1]..(u[1] + Width(u[2]) - 1)) = {}}
  BY DEF Abs!FreeBlocks, Abs!Width, Abs!Span, Width, UsedSet
<1>6. ASSUME NEW p \in Nat, NEW y \in Pages, status[y] = USED
      PROVE  ((p..(p + Width(r) - 1)) \cap (y..(y + Width(rank[y]) - 1)) = {})
               <=> (y + Width(rank[y]) =< p \/ p + Width(r) =< y)
  <2>1. PICK v \in Nat : v = Width(rank[y]) /\ v >= 1 /\ y \in Nat
    BY <1>6, StartAligned, WidthNat DEF USED, UNDEF
  <2>2. PICK w \in Nat : w = Width(r) /\ w >= 1
    BY <1>2
  <2>3. ASSUME ~(y + v =< p), ~(p + w =< y)
        PROVE  (p..(p + w - 1)) \cap (y..(y + v - 1)) # {}
    <3>1. CASE p =< y
      <4>1. y \in p..(p + w - 1) /\ y \in y..(y + v - 1)
        BY <2>1, <2>2, <2>3, <3>1
      <4> QED BY <4>1
    <3>2. CASE ~(p =< y)
      <4>1. p \in p..(p + w - 1) /\ p \in y..(y + v - 1)
        BY <2>1, <2>2, <2>3, <3>2
      <4> QED BY <4>1
    <3> QED BY <3>1, <3>2
  <2>4. ASSUME y + v =< p \/ p + w =< y
        PROVE  (p..(p + w - 1)) \cap (y..(y + v - 1)) = {}
    BY <2>1, <2>2, <2>4
  <2> QED BY <2>1, <2>2, <2>3, <2>4
<1>7. ASSUME NEW p \in Nat, p < page_num
      PROVE  (p % Width(r) = 0) <=> (Aligned(p, r) /\ p + Width(r) =< page_num)
  <2>1. ASSUME p % Width(r) = 0 PROVE Aligned(p, r)
    <3>1. p - 0 = (p \div Width(r)) * Width(r) /\ p \div Width(r) \in Nat
      BY <1>2, <2>1, Modulo
    <3> QED BY <3>1 DEF Aligned
  <2>2. ASSUME Aligned(p, r) PROVE p % Width(r) = 0
    BY <1>2, <2>2, Modulo DEF Aligned
  <2> QED BY <1>1, <1>7, <2>1, <2>2, FitsInPool
<1>8. \A p \in Nat : Clear(p, r) => p < page_num
  BY <1>2 DEF Clear
<1>9. \A p : p \in Abs!PoolPages <=> p \in Nat /\ p < page_num
  BY <1>2, <1>4
<1>10. ASSUME NEW p \in Nat
       PROVE  (\A u \in UsedSet :
                 (p..(p + Width(r) - 1)) \cap (u[1]..(u[1] + Width(u[2]) - 1)) = {})
              <=> (\A y \in Pages : status[y] = USED =>
                     y + Width(rank[y]) =< p \/ p + Width(r) =< y)
  <2> DEFINE Off(y, v) == (p..(p + Width(r) - 1)) \cap (y..(y + Width(v) - 1)) = {}
  <2>1. \A u \in UsedSet : \E y \in Pages : status[y] = USED /\ u = <<y, rank[y]>>
    BY <1>3
  <2>2. \A y \in Pages : status[y] = USED => <<y, rank[y]>> \in UsedSet
    BY <1>3
  <2>3. \A y, v : <<y, v>>[1] = y /\ <<y, v>>[2] = v
    OBVIOUS
  <2>4. \A y \in Pages : status[y] = USED =>
          (Off(y, rank[y]) <=> (y + Width(rank[y]) =< p \/ p + Width(r) =< y))
    BY <1>6
  <2> HIDE DEF Off
  <2>5. (\A u \in UsedSet : Off(u[1], u[2]))
          <=> (\A y \in Pages : status[y] = USED => Off(y, rank[y]))
    <3>1. ASSUME \A u \in UsedSet : Off(u[1], u[2]), NEW y \in Pages, status[y] = USED
          PROVE  Off(y, rank[y])
      <4> DEFINE u == <<y, rank[y]>>
      <4>1. u \in UsedSet
        BY <2>2, <3>1
      <4>2. u[1] = y /\ u[2] = rank[y]
        OBVIOUS
      <4> HIDE DEF u
      <4>3. Off(u[1], u[2])
        BY <3>1, <4>1
      <4> QED BY <4>2, <4>3
    <3>2. ASSUME \A y \in Pages : status[y] = USED => Off(y, rank[y]), NEW u \in UsedSet
          PROVE  Off(u[1], u[2])
      <4>1. PICK y \in Pages : status[y] = USED /\ u = <<y, rank[y]>>
        BY <2>1
      <4>2. u[1] = y /\ u[2] = rank[y]
        BY <4>1
      <4> QED BY <3>2, <4>1, <4>2
    <3> QED BY <3>1, <3>2
  <2>6. (\A u \in UsedSet : Off(u[1], u[2])) <=>
          (\A y \in Pages : status[y] = USED => (y + Width(rank[y]) =< p \/ p + Width(r) =< y))
    BY <2>4, <2>5
  <2> QED BY <2>6 DEF Off
<1>11. ASSUME NEW p \in Nat, p < page_num
       PROVE  p \in Abs!FreeBlocks(r) <=> Clear(p, r)
  BY <1>5, <1>7, <1>9, <1>10, <1>11 DEF Clear
<1>12. \A p : p \in Abs!FreeBlocks(r) => p \in Nat /\ p < page_num
  BY <1>5, <1>9
<1> QED BY <1>8, <1>11, <1>12

\* A free block is clear, whatever a call is doing to the others.
LEMMA FreeIsClear ==
  ASSUME IInv, pc # "merge", NEW r \in 1..rank_num, NEW p \in Free(r)
  PROVE  Clear(p, r)
<1>1. p \in Pages /\ status[p] = UNUSED /\ rank[p] = r
  BY DEF Free
<1>2. rank_num \in Ranks /\ Aligned(p, r) /\ p \in Nat /\ p + Width(r) =< page_num
  BY <1>1, StartAligned DEF UNUSED, UNDEF
<1>3. Tiles(Starts, Widths, page_num)
  BY <1>2, SizeAssumption DEF IInv, TileInv, Ranks
<1>4. ASSUME NEW y \in Pages, status[y] = USED
      PROVE  y + Width(rank[y]) =< p \/ p + Width(r) =< y
  <2>1. y \in Starts /\ p \in Starts /\ Widths[y] = Width(rank[y]) /\ Widths[p] = Width(r)
        /\ y # p /\ y \in Nat
    BY <1>1, <1>4 DEF Starts, Widths, Returned, USED, UNUSED, UNDEF, Pages
  <2>2. y < p \/ p < y
    BY <1>2, <2>1
  <2> QED BY <1>3, <2>1, <2>2 DEF Tiles
<1> QED BY <1>2, <1>4 DEF Clear

\* The free blocks of a rank are the clear ranges in no larger clear range.
LEMMA LargestAre ==
  ASSUME IInv, TwinInv, pc = "idle", NEW r \in 1..rank_num
  PROVE  Abs!Largest(r) = Free(r)
<1>1. rank_num \in Ranks /\ r \in Ranks /\ rank_num \in Nat
  BY SizeAssumption DEF IInv, TypInv, Ranks
<1>2. Width(r) \in Nat /\ Width(r) >= 1
  BY <1>1, WidthNat
<1>3. Abs!FreeBlocks(r) = {p \in Nat : Clear(p, r)}
  BY FreeBlocksAre
<1>4. r < rank_num => r + 1 \in 1..rank_num /\ r + 1 \in Ranks
                      /\ Abs!FreeBlocks(r + 1) = {p \in Nat : Clear(p, r + 1)}
  BY <1>1, FreeBlocksAre, SizeAssumption DEF Ranks
<1>5. \A p : p \in Abs!Largest(r) <=>
        /\ p \in Abs!FreeBlocks(r)
        /\ r < rank_num => p - (p % Width(r + 1)) \notin Abs!FreeBlocks(r + 1)
  BY DEF Abs!Largest, Abs!Width, Width
<1> DEFINE par(p) == p - (p % Width(r + 1))
\* The block one rank up around p.
<1>6. ASSUME NEW p \in Nat, r < rank_num, Aligned(p, r)
      PROVE  /\ Aligned(par(p), r + 1) /\ par(p) \in Nat /\ par(p) =< p
             /\ p + Width(r) =< par(p) + Width(r + 1)
  <2>1. Width(r + 1) \in Nat /\ Width(r + 1) >= 1
    BY <1>4, <1>6, WidthNat
  <2>2. /\ p % Width(r + 1) \in Nat /\ p % Width(r + 1) < Width(r + 1)
        /\ par(p) = (p \div Width(r + 1)) * Width(r + 1)
        /\ p \div Width(r + 1) \in Nat /\ par(p) \in Nat
    BY <2>1, Modulo
  <2>3. Aligned(par(p), r + 1)
    BY <2>2 DEF Aligned
  <2>4. par(p) =< p /\ p < par(p) + Width(r + 1)
    <3>1. \A m, w \in Nat : m < w => p - m =< p /\ p < (p - m) + w
      OBVIOUS
    <3> QED BY <2>1, <2>2, <3>1
  <2> HIDE DEF par
  <2>5. par(p) < p + Width(r) /\ r \in 1..(r + 1)
    BY <1>1, <1>2, <2>2, <2>4 DEF Ranks
  <2>6. p + Width(r) =< par(p) + Width(r + 1)
    BY <1>4, <1>6, <2>2, <2>3, <2>4, <2>5, Nested
  <2> QED BY <2>2, <2>3, <2>4, <2>6
<1> HIDE DEF par
<1>7. ASSUME NEW p \in Free(r) PROVE p \in Abs!Largest(r)
  <2>1. Clear(p, r) /\ p \in Nat /\ Aligned(p, r)
    BY FreeIsClear DEF Clear
  <2>2. ASSUME r < rank_num, par(p) \in Abs!FreeBlocks(r + 1) PROVE FALSE
    <3>1. Clear(par(p), r + 1)
      BY <1>4, <2>2
    <3>2. Within(par(p), r + 1)
      BY <1>4, <2>2, <3>1, Coalesced
    <3>3. PICK u \in (r + 1)..rank_num : \E f \in Free(u) :
             f =< par(p) /\ par(p) + Width(r + 1) =< f + Width(u)
      BY <3>2 DEF Within
    <3>4. PICK f \in Free(u) : f =< par(p) /\ par(p) + Width(r + 1) =< f + Width(u)
      BY <3>3
    <3>5. /\ f \in Starts /\ p \in Starts /\ Widths[f] = Width(u) /\ Widths[p] = Width(r)
          /\ f # p
      BY <1>1, <3>3 DEF Free, Starts, Widths, Returned, UNUSED, UNDEF, Ranks
    <3>6. Tiles(Starts, Widths, page_num)
      BY <1>1, SizeAssumption DEF IInv, TileInv, Ranks
    <3>7. u \in Ranks /\ Width(u) \in Nat /\ f \in Nat /\ Width(r + 1) \in Nat
      BY <1>1, <1>4, <2>2, <3>3, WidthNat, SizeAssumption DEF Ranks, Free, Pages
    <3>8. f =< p /\ p + Width(r) =< f + Width(u)
      BY <1>2, <1>6, <2>1, <2>2, <3>4, <3>7
    <3> QED BY <1>2, <2>1, <3>5, <3>6, <3>7, <3>8 DEF Tiles
  <2> QED BY <1>3, <1>5, <2>1, <2>2 DEF par
<1>8. ASSUME NEW p \in Abs!Largest(r) PROVE p \in Free(r)
  <2>1. Clear(p, r) /\ p \in Nat /\ Aligned(p, r)
    BY <1>3, <1>5 DEF Clear
  <2>2. Within(p, r)
    BY <2>1, Coalesced
  <2>3. PICK u \in r..rank_num : \E f \in Free(u) : f =< p /\ p + Width(r) =< f + Width(u)
    BY <2>2 DEF Within
  <2>4. PICK f \in Free(u) : f =< p /\ p + Width(r) =< f + Width(u)
    BY <2>3
  <2>5. f \in Nat
    BY DEF Free, Pages
  <2>6. CASE u = r
    <3>1. f = p
      BY <1>2, <2>1, <2>4, <2>5, <2>6
    <3> QED BY <2>6, <3>1
  <2>7. CASE u # r
    <3>1. r < rank_num /\ u \in 1..rank_num /\ u \in Ranks /\ r + 1 \in 1..u
      BY <1>1, <2>3, <2>7, SizeAssumption DEF Ranks
    <3>2. /\ Aligned(par(p), r + 1) /\ par(p) \in Nat /\ par(p) =< p
          /\ p + Width(r) =< par(p) + Width(r + 1)
      BY <1>6, <2>1, <3>1
    <3>3. Clear(f, u) /\ Aligned(f, u)
      BY <3>1, FreeIsClear DEF Clear
    <3>4. Width(r + 1) \in Nat /\ Width(u) \in Nat
      BY <1>4, <3>1, WidthNat
    <3>5. f < par(p) + Width(r + 1) /\ par(p) < f + Width(u)
      BY <1>2, <2>1, <2>4, <2>5, <3>2, <3>4
    <3>6. f =< par(p) /\ par(p) + Width(r + 1) =< f + Width(u)
      BY <2>5, <3>1, <3>2, <3>3, <3>5, Nested
    <3>7. page_num \in Nat
      BY <1>1, WidthNat DEF page_num, Width
    <3>8. ASSUME NEW y \in Pages, status[y] = USED
          PROVE  y + Width(rank[y]) =< par(p) \/ par(p) + Width(r + 1) =< y
      <4>1. y \in Nat /\ Width(rank[y]) \in Nat
        BY <3>8, StartAligned, WidthNat DEF USED, UNDEF
      <4>2. y + Width(rank[y]) =< f \/ f + Width(u) =< y
        BY <3>3, <3>8 DEF Clear
      <4> QED BY <2>5, <3>2, <3>4, <3>6, <4>1, <4>2
    <3>9. par(p) + Width(r + 1) =< page_num
      BY <2>5, <3>2, <3>3, <3>4, <3>6, <3>7 DEF Clear
    <3>10. Clear(par(p), r + 1)
      BY <3>2, <3>8, <3>9 DEF Clear
    <3> QED BY <1>4, <1>5, <3>1, <3>2, <3>10 DEF par
  <2> QED BY <2>6, <2>7
<1> QED BY <1>7, <1>8

-----------------------------------------------------------------------------
(* The queries. *)

\* A page number and its pointer.
LEMMA PagePtr ==
  ASSUME NEW p \in Nat
  PROVE  /\ p * PageSize \in Nat /\ (p * PageSize) % PageSize = 0
         /\ (p * PageSize) \div PageSize = p
<1>1. \A s \in Nat : s >= 1 => /\ p * s \in Nat /\ (p * s) % s = 0 /\ (p * s) \div s = p
  <2> SUFFICES ASSUME NEW s \in Nat, s >= 1
               PROVE  p * s \in Nat /\ (p * s) % s = 0 /\ (p * s) \div s = p
    OBVIOUS
  <2>1. p * s \in Nat
    OBVIOUS
  <2>2. (p * s) % s = 0 /\ (p * s) \div s = p
    BY <2>1, Modulo
  <2> QED BY <2>1, <2>2
<1> QED BY <1>1, SizeAssumption

\* Between calls the blocks that begin at a page are the one with its rank.
LEMMA RankOfPage ==
  ASSUME IInv, TwinInv, pc = "idle", rank_num # 0, NEW p \in Pool
  PROVE  /\ p \in Pages
         /\ \A r : r \in Abs!RankAt(p) <=> status[p] # UNDEF /\ r = rank[p]
<1>1. rank_num \in Ranks
  BY SizeAssumption DEF IInv, TypInv, Ranks
<1>2. p \in Pages
  <2>1. page_num \in Nat /\ Pow2[MaxRank] \in Nat /\ page_num =< Pow2[MaxRank]
    <3>1. rank_num - 1 \in 0..MaxRank /\ MaxRank \in (rank_num - 1)..MaxRank
          /\ MaxRank \in 0..MaxRank
      BY <1>1, SizeAssumption DEF Ranks
    <3> QED BY <3>1, Powers, ShiftAssumption DEF page_num
  <2> QED BY <2>1 DEF Pool, Pages
<1>3. \A r : r \in Abs!RankAt(p) <=> r \in 1..rank_num /\ (<<p, r>> \in UsedSet \/ p \in Abs!Largest(r))
  BY DEF Abs!RankAt, UsedSet
<1>4. \A r : <<p, r>> \in UsedSet <=> status[p] = USED /\ r = rank[p]
  <2>1. UsedSet = {<<q, rank[q]>> : q \in {q \in Pages : status[q] = USED}}
    BY DEF UsedSet
  <2>2. ASSUME NEW r, <<p, r>> \in UsedSet PROVE status[p] = USED /\ r = rank[p]
    <3>1. PICK q \in Pages : status[q] = USED /\ <<p, r>> = <<q, rank[q]>>
      BY <2>1, <2>2
    <3>2. p = q /\ r = rank[q]
      BY <3>1
    <3> QED BY <3>1, <3>2
  <2> QED BY <1>2, <2>1, <2>2
<1>5. \A r \in 1..rank_num : p \in Abs!Largest(r) <=> status[p] = UNUSED /\ r = rank[p]
  BY <1>2, LargestAre DEF Free
<1>6. status[p] # UNDEF => rank[p] \in 1..rank_num
  BY <1>2, StartAligned
<1>7. status[p] \in {UNDEF, UNUSED, USED}
  BY <1>2 DEF IInv, TypInv
<1>8. UNDEF # UNUSED /\ UNDEF # USED
  BY DEF UNDEF, UNUSED, USED
<1> QED BY <1>2, <1>3, <1>4, <1>5, <1>6, <1>7, <1>8

\* TwinInv holds in every reachable state.
LEMMA TwinHolds == ASSUME ~Shrinks PROVE Spec => []TwinInv
<1>1. Spec => []IInv
  BY InvHolds
<1>2. IInv /\ IInv' /\ TwinInv /\ [Next]_vars => TwinInv'
  BY TwinNext
<1> QED BY <1>1, <1>2, TwinInit, PTL DEF Spec

(* QueriesTrue: query_page_counts counts the ranges of free pages that are as
   large as can be and query_ranks finds the block that begins at a page (of
   the other pages of a block nothing is said), as the callers' blocks alone
   determine them: split and merge of buddy.c keep
   the free memory in as few blocks as the alignment allows. *)
THEOREM QueriesAnswered == ASSUME ~Shrinks PROVE Spec => []QueriesTrue
<1>1. ASSUME IInv, TwinInv, pc = "idle", rank_num # 0, NEW r \in 0..(MaxRank + 1)
      PROVE  query_page_counts(r) = IF r \in 1..rank_num
                                    THEN Cardinality(Abs!Largest(r)) ELSE EINVAL
  <2>1. ASSUME r \in 1..rank_num PROVE count[r] = Cardinality(Abs!Largest(r))
    <3>1. r \in Ranks /\ r =< rank_num
      BY <1>1, <2>1, SizeAssumption DEF IInv, TypInv, Ranks
    <3>2. Free(r) = FreeIn(status, rank, r)
      BY DEF Free, FreeIn
    <3>3. count[r] = Cardinality(Free(r))
      BY <1>1, <3>1, <3>2 DEF IInv, CountInv
    <3>4. Abs!Largest(r) = Free(r)
      BY <1>1, <2>1, LargestAre
    <3> QED BY <3>3, <3>4
  <2> QED BY <2>1 DEF query_page_counts
<1>2. ASSUME IInv, TwinInv, pc = "idle", rank_num # 0, NEW p \in Pool
      PROVE  \A r \in Abs!RankAt(p) : query_ranks(p * PageSize) = r
  <2>1. /\ p \in Pages
        /\ \A r : r \in Abs!RankAt(p) <=> status[p] # UNDEF /\ r = rank[p]
    BY <1>2, RankOfPage
  <2>2. rank_num \in Ranks
    BY <1>2, SizeAssumption DEF IInv, TypInv, Ranks
  <2>3. page_num \in Nat
    BY <2>2, WidthNat DEF page_num, Width
  <2>4. p \in Nat /\ p =< page_num
    BY <1>2, <2>3 DEF Pool
  <2>5. is_valid_ptr(p * PageSize) /\ ptr_to_page(p * PageSize) = p
    <3>1. p * PageSize \in Nat /\ (p * PageSize) % PageSize = 0 /\ (p * PageSize) \div PageSize = p
      BY <2>4, PagePtr
    <3>2. \A x \in Nat : x >= 0
      OBVIOUS
    <3> QED BY <2>4, <3>1, <3>2 DEF is_valid_ptr, ptr_to_page
  <2>6. query_ranks(p * PageSize) = IF status[p] # UNDEF THEN rank[p] ELSE EINVAL
    BY <2>5 DEF query_ranks
  <2> QED BY <2>1, <2>6
<1>3. IInv /\ TwinInv => QueriesTrue
  BY <1>1, <1>2 DEF QueriesTrue
<1>4. Spec => []IInv /\ []TwinInv
  BY InvHolds, TwinHolds
<1> QED BY <1>3, <1>4, PTL

-----------------------------------------------------------------------------
(* The refinement. *)

\* A step that leaves the pool, the callers' blocks and the answer alone.
LEMMA AbsStutter == ASSUME UNCHANGED <<rank_num, ret>>, UsedSet' = UsedSet
                    PROVE  UNCHANGED Abs!absVars
BY DEF Abs!absVars, UsedSet

\* What is to be shown of init_page.
LEMMA AbsInitPage ==
  ASSUME NEW g \in PgCounts, rank_num' \in DOMAIN Pow2 \ {0},
         Pow2[rank_num' - 1] =< g, g < Pow2[rank_num'], UsedSet' = {}, Answer("init_page", g, OK)
  PROVE  Abs!Next
<1>1. Abs!InitPage(g)
  BY DEF Abs!InitPage, Abs!Answer, Answer, UsedSet, OK, Abs!OK
<1> QED BY <1>1 DEF Abs!Next

\* What is to be shown of alloc_pages.
LEMMA AbsAlloc ==
  ASSUME NEW r \in RankArgs, rank_num # 0, rank_num' = rank_num,
         \/ r \notin 1..rank_num /\ UsedSet' = UsedSet /\ Answer("alloc_pages", r, EINVAL)
         \/ /\ r \in 1..rank_num /\ Abs!FreeBlocks(r) = {}
            /\ UsedSet' = UsedSet /\ Answer("alloc_pages", r, ENOSPC)
         \/ /\ r \in 1..rank_num
            /\ \E p \in Abs!FreeBlocks(r) :
                 UsedSet' = UsedSet \cup {<<p, r>>} /\ Answer("alloc_pages", r, p * PageSize)
  PROVE  Abs!Next
<1>1. Abs!Alloc(r)
  BY DEF Abs!Alloc, Abs!Answer, Answer, UsedSet, EINVAL, ENOSPC, Abs!EINVAL, Abs!ENOSPC
<1> QED BY <1>1 DEF Abs!Next

\* What is to be shown of return_pages.
LEMMA AbsReturn ==
  ASSUME NEW ptr \in PtrArgs, rank_num # 0, rank_num' = rank_num,
         \/ \E u \in UsedSet : /\ u[1] * PageSize = ptr
                               /\ UsedSet' = UsedSet \ {u}
                               /\ Answer("return_pages", ptr, OK)
         \/ /\ \A u \in UsedSet : u[1] * PageSize # ptr
            /\ UsedSet' = UsedSet /\ Answer("return_pages", ptr, EINVAL)
  PROVE  Abs!Next
<1>1. Abs!Return(ptr)
  BY DEF Abs!Return, Abs!Answer, Answer, UsedSet, EINVAL, OK, Abs!EINVAL, Abs!OK
<1> QED BY <1>1 DEF Abs!Next

\* Outside the merge loop the callers hold the blocks that are USED.
LEMMA UsedIdle == ASSUME pc # "merge" PROVE UsedSet = {<<p, rank[p]>> : p \in {q \in Pages : status[q] = USED}}
BY DEF UsedSet

\* Before init_page nobody holds a block.
LEMMA RefineInit == Init => Abs!Init
<1> SUFFICES ASSUME Init PROVE Abs!Init
  OBVIOUS
<1>1. UsedSet = {}
  <2>1. \A q \in Pages : status[q] # USED
    BY DEF Init, UNDEF, USED
  <2>2. pc # "merge"
    BY DEF Init
  <2> QED BY <2>1, <2>2, UsedIdle
<1> QED BY <1>1 DEF Init, Abs!Init, UsedSet, OK, Abs!OK

\* init_page begins a pool that nobody holds a block of.
LEMMA RefineInitPage ==
  ASSUME IInv, ~Shrinks, NEW g \in PgCounts, init_page(g)
  PROVE  Abs!Next
<1>1. /\ rank_num' \in Ranks /\ IsRankNum(rank_num', g)
      /\ rank'[0] = rank_num' /\ pc' = "idle"
      /\ \A p \in Pages : status'[p] = IF p = 0 THEN UNUSED ELSE UNDEF
  BY OnePage
<1>2. UsedSet' = {}
  <2>1. \A p \in Pages : status'[p] # USED
    BY <1>1 DEF UNUSED, UNDEF, USED
  <2> QED BY <1>1, <2>1 DEF UsedSet
<1>3. rank_num' \in DOMAIN Pow2 \ {0}
  BY <1>1, SizeAssumption, ShiftAssumption DEF Ranks
<1>4. Answer("init_page", g, OK)
  BY DEF init_page
<1> QED BY <1>1, <1>2, <1>3, <1>4, AbsInitPage DEF IsRankNum

\* -ENOSPC: where the lists from rank r on are empty, no range of that rank is free.
LEMMA RefineAllocRefuse ==
  ASSUME IInv, TwinInv, NEW r \in RankArgs, AllocRefuse(r)
  PROVE  Abs!Next
<1>1. /\ pc = "idle" /\ rank_num # 0
      /\ UNCHANGED <<rank_num, status, rank, pc, at, block>>
  BY DEF AllocRefuse, call
<1>2. UsedSet' = UsedSet
  BY <1>1 DEF UsedSet
<1>3. ASSUME r \in 1..rank_num, \A u \in r..rank_num : bucket[u] = NULL
      PROVE  Abs!FreeBlocks(r) = {}
  <2> SUFFICES ASSUME NEW p \in Abs!FreeBlocks(r) PROVE FALSE
    OBVIOUS
  <2>1. Clear(p, r)
    BY <1>1, <1>3, FreeBlocksAre
  <2>2. Within(p, r)
    BY <1>1, <1>3, <2>1, Coalesced
  <2>3. PICK u \in r..rank_num : \E f \in Free(u) : TRUE
    BY <2>2 DEF Within
  <2>4. u \in 1..rank_num
    BY <1>3, <2>3 DEF IInv, TypInv
  <2>5. Joined(Lists, u, Free(u)) /\ \E N, s : InLine(Lists, u, Free(u), N, s)
    BY <2>4 DEF IInv, ListInv, Linked, Free, FreeIn
  <2>6. PICK N, s : InLine(Lists, u, Free(u), N, s)
    BY <2>5
  <2>7. bucket[u] = IF N = 0 THEN NULL ELSE s[1]
    BY <2>6 DEF InLine, Lists
  <2>8. N \in Nat /\ N # 0 /\ s \in [1..N -> Free(u)]
    BY <2>3, <2>6 DEF InLine
  <2>9. s[1] \in Pages
    BY <2>8 DEF Free
  <2> QED BY <1>3, <2>7, <2>8, <2>9, NoPage
<1>4. \/ r \notin 1..rank_num /\ Answer("alloc_pages", r, EINVAL)
      \/ /\ r \in 1..rank_num
         /\ \A u \in r..rank_num : bucket[u] = NULL
         /\ Answer("alloc_pages", r, ENOSPC)
  BY DEF AllocRefuse
<1> QED BY <1>1, <1>2, <1>3, <1>4, AbsAlloc

\* The block alloc_pages takes is free, whole and of the rank asked for.
LEMMA RefineTake ==
  ASSUME IInv, Take, want \in RankArgs
  PROVE  Abs!Next
<1>1. PICK a, m : TakesAt(a, m)
  BY TakeMoves
<1>2. /\ a = want /\ a \in 1..rank_num /\ rank_num # 0 /\ m \in Free(a) /\ pc # "merge"
      /\ rank_num' = rank_num /\ pc' = "idle" /\ rank' = rank
      /\ \A p \in Pages : status'[p] = IF p = m THEN USED ELSE status[p]
      /\ ret' = [fn |-> "alloc_pages", arg |-> a, val |-> m * PageSize]
  BY <1>1 DEF TakesAt
<1>3. m \in Abs!FreeBlocks(a)
  <2>1. Clear(m, a)
    BY <1>2, FreeIsClear
  <2>2. m \in Nat
    BY <2>1 DEF Clear
  <2> QED BY <1>2, <2>1, <2>2, FreeBlocksAre
<1>4. m \in Pages /\ rank[m] = a /\ status[m] # USED
  BY <1>2 DEF Free, UNUSED, USED
<1>5. UsedSet' = UsedSet \cup {<<m, a>>}
  <2>1. UsedSet = {<<p, rank[p]>> : p \in {q \in Pages : status[q] = USED}}
    BY <1>2, UsedIdle
  <2>2. UsedSet' = {<<p, rank[p]>> : p \in {q \in Pages : status'[q] = USED}}
    BY <1>2 DEF UsedSet
  <2>3. {q \in Pages : status'[q] = USED} = {q \in Pages : status[q] = USED} \cup {m}
    BY <1>2, <1>4
  <2> QED BY <1>4, <2>1, <2>2, <2>3
<1>6. Answer("alloc_pages", a, m * PageSize)
  BY <1>2 DEF Answer
<1> QED BY <1>2, <1>3, <1>5, <1>6, AbsAlloc

\* The steps of a call between its first and its last do not show.
LEMMA HiddenSteps ==
  ASSUME IInv, Split \/ Merge \/ Put
  PROVE  UNCHANGED Abs!absVars
<1>1. CASE Split
  <2>1. PICK n, a, m, q, w : SplitsAt(n, a, m, q, w) /\ SplitMoved(n, a, m, q)
    BY <1>1, SplitMoves
  <2>2. /\ pc = "split" /\ UNCHANGED <<rank_num, pc, ret>> /\ m \in Pages
        /\ status[m] # USED /\ status[q] # USED
        /\ \A p \in Pages : /\ status'[p] = IF p \in {m, q} THEN UNUSED ELSE status[p]
                            /\ rank'[p] = IF p \in {m, q} THEN a - 1 ELSE rank[p]
    BY <2>1 DEF SplitsAt, SplitMoved, Free, USED, UNUSED, UNDEF
  <2>3. \A p \in Pages : /\ status'[p] = USED <=> status[p] = USED
                         /\ status[p] = USED => rank'[p] = rank[p]
    BY <2>2 DEF USED, UNUSED
  <2>4. UsedSet' = UsedSet
    BY <2>2, <2>3 DEF UsedSet
  <2> QED BY <2>2, <2>4, AbsStutter
<1>2. CASE Merge
  <2>1. PICK m, d \in Pages :
           /\ m = block_to_page(block, at) /\ status[d] = UNUSED /\ pc = "merge"
           /\ \A p \in Pages : status'[p] = IF p \in {m, d} THEN UNDEF ELSE status[p]
           /\ block_to_page(block, at)' \in {m, d}
           /\ UNCHANGED <<rank_num, rank, pc, ret>>
    BY <1>2, MergeMoves
  <2>2. \A p \in Pages : (status'[p] = USED /\ p # block_to_page(block, at)')
                           <=> (status[p] = USED /\ p # block_to_page(block, at))
    BY <2>1 DEF USED, UNUSED, UNDEF
  <2>3. UsedSet' = UsedSet
    <3>1. UsedSet = {<<p, rank[p]>> : p \in {q \in Pages : status[q] = USED /\ q # block_to_page(block, at)}}
      BY <2>1 DEF UsedSet
    <3>2. UsedSet' = {<<p, rank[p]>> : p \in {q \in Pages : status'[q] = USED /\ q # block_to_page(block, at)'}}
      BY <2>1 DEF UsedSet
    <3> QED BY <2>2, <3>1, <3>2
  <2> QED BY <2>1, <2>3, AbsStutter
<1>3. CASE Put
  <2>1. PICK a \in Ranks, m \in Pages :
           /\ m = block_to_page(block, at) /\ pc = "merge"
           /\ \A p \in Pages : status'[p] = IF p = m THEN UNUSED ELSE status[p]
           /\ \A p \in Pages : rank'[p] = IF p = m THEN a ELSE rank[p]
           /\ rank_num' = rank_num /\ pc' = "idle" /\ ret' = ret
    BY <1>3, PutMoves
  <2>2. \A p \in Pages : /\ status'[p] = USED <=> status[p] = USED /\ p # m
                         /\ p # m => rank'[p] = rank[p]
    BY <2>1 DEF USED, UNUSED
  <2>3. UsedSet' = UsedSet
    <3>1. UsedSet = {<<p, rank[p]>> : p \in {q \in Pages : status[q] = USED /\ q # m}}
      BY <2>1 DEF UsedSet
    <3>2. UsedSet' = {<<p, rank'[p]>> : p \in {q \in Pages : status'[q] = USED}}
      BY <2>1 DEF UsedSet
    <3> QED BY <2>2, <3>1, <3>2
  <2> QED BY <2>1, <2>3, AbsStutter
<1> QED BY <1>1, <1>2, <1>3

\* What a pointer to a page says of it.
LEMMA PtrIsPage ==
  ASSUME IInv, rank_num # 0, NEW ptr \in Int
  PROVE  \A p \in Pages : (IsAllocated(ptr) /\ p = ptr_to_page(ptr))
                            <=> (p * PageSize = ptr /\ status[p] = USED)
<1> SUFFICES ASSUME NEW p \in Pages
             PROVE  (IsAllocated(ptr) /\ p = ptr_to_page(ptr))
                      <=> (p * PageSize = ptr /\ status[p] = USED)
  OBVIOUS
<1>0. PageSize \in Nat /\ PageSize >= 1
  BY SizeAssumption
<1>1. ASSUME IsAllocated(ptr), p = ptr_to_page(ptr) PROVE p * PageSize = ptr /\ status[p] = USED
  <2>1. ptr \in Nat /\ ptr % PageSize = 0 /\ ptr \div PageSize = p /\ status[p] = USED
    BY <1>1 DEF IsAllocated, is_valid_ptr, ptr_to_page
  <2>2. ptr - (ptr % PageSize) = (ptr \div PageSize) * PageSize
    BY <1>0, <2>1, Modulo
  <2>3. ptr - 0 = ptr
    BY <2>1
  <2> QED BY <2>1, <2>2, <2>3
<1>2. ASSUME p * PageSize = ptr, status[p] = USED PROVE IsAllocated(ptr) /\ p = ptr_to_page(ptr)
  <2>1. p \in Nat /\ p =< page_num
    <3>1. rank[p] \in Ranks /\ p \in Nat /\ p + Width(rank[p]) =< page_num /\ page_num \in Nat
      BY <1>2, StartAligned DEF USED, UNDEF
    <3>2. Width(rank[p]) \in Nat
      BY <3>1, WidthNat
    <3> QED BY <3>1, <3>2
  <2>2. ptr \in Nat /\ ptr % PageSize = 0 /\ ptr \div PageSize = p
    BY <1>2, <2>1, PagePtr
  <2>3. ptr >= 0
    BY <2>2
  <2> QED BY <1>2, <2>1, <2>2, <2>3 DEF IsAllocated, is_valid_ptr, ptr_to_page
<1> QED BY <1>1, <1>2

\* return_pages takes back what was given out, and nothing else.
LEMMA RefineReturn ==
  ASSUME IInv, NEW ptr \in PtrArgs, ReturnRefuse(ptr) \/ ReturnBegin(ptr)
  PROVE  Abs!Next
<1>1. /\ pc = "idle" /\ rank_num # 0 /\ ptr \in Int
      /\ UNCHANGED <<rank_num, status, rank, index>>
  BY ArgAssumption DEF ReturnRefuse, ReturnBegin
<1>2. UsedSet = {<<p, rank[p]>> : p \in {q \in Pages : status[q] = USED}}
  BY <1>1, UsedIdle
<1>3. ASSUME ReturnRefuse(ptr) PROVE Abs!Next
  <2>1. ~IsAllocated(ptr) /\ Answer("return_pages", ptr, EINVAL) /\ UNCHANGED <<pc, at, block>>
    BY <1>3 DEF ReturnRefuse, call
  <2>2. UsedSet' = UsedSet
    BY <1>1, <2>1 DEF UsedSet
  <2>3. ASSUME NEW u \in UsedSet PROVE u[1] * PageSize # ptr
    <3>1. PICK p \in Pages : status[p] = USED /\ u = <<p, rank[p]>>
      BY <1>2
    <3>2. u[1] = p
      BY <3>1
    <3> QED BY <1>1, <2>1, <3>1, <3>2, PtrIsPage
  <2> QED BY <1>1, <2>1, <2>2, <2>3, AbsReturn
<1>4. ASSUME ReturnBegin(ptr) PROVE Abs!Next
  <2>1. /\ IsAllocated(ptr) /\ Answer("return_pages", ptr, OK) /\ pc' = "merge"
        /\ at' = rank[ptr_to_page(ptr)] /\ block' = index[ptr_to_page(ptr)]
    BY <1>4 DEF ReturnBegin, Begin
  <2>2. PICK p \in Pages : p = ptr_to_page(ptr)
    BY <1>1, <2>1, PtrInPages DEF IInv, IsAllocated
  <2>3. p * PageSize = ptr /\ status[p] = USED
    BY <1>1, <2>1, <2>2, PtrIsPage
  <2>4. PageOf(rank_num, index[p], rank[p]) = p
    BY <2>3 DEF IInv, BlockInv, USED, UNDEF
  <2>5. block_to_page(block, at)' = p
    <3>1. block_to_page(block, at)' = PageOf(rank_num, index[p], rank[p])
      BY <1>1, <2>1, <2>2 DEF block_to_page, PageOf, Width
    <3> QED BY <2>4, <3>1
  <2>6. UsedSet' = UsedSet \ {<<p, rank[p]>>}
    <3>1. UsedSet' = {<<q, rank[q]>> : q \in {q \in Pages : status[q] = USED /\ q # p}}
      BY <1>1, <2>1, <2>5 DEF UsedSet
    <3>2. \A q, x, y : <<q, x>> = <<p, y>> => q = p
      OBVIOUS
    <3> QED BY <1>2, <2>3, <3>1, <3>2
  <2>7. PICK u \in UsedSet : u = <<p, rank[p]>>
    BY <1>2, <2>3
  <2>8. u[1] = p
    BY <2>7
  <2> QED BY <1>1, <2>1, <2>3, <2>6, <2>7, <2>8, AbsReturn
<1> QED BY <1>3, <1>4

\* The rank a split is for was the argument of a call.
WantInv == pc = "split" => want \in RankArgs

\* WantInv holds in every reachable state.
LEMMA WantHolds == Spec => []WantInv
<1>1. Init => WantInv
  BY DEF Init, WantInv
<1>2. ASSUME WantInv, [Next]_vars PROVE WantInv'
  <2>1. ASSUME NEW g \in PgCounts, init_page(g) PROVE WantInv'
    BY <1>2, <2>1 DEF init_page, WantInv, call
  <2>2. ASSUME NEW r \in RankArgs, AllocRefuse(r) PROVE WantInv'
    BY <1>2, <2>2 DEF AllocRefuse, WantInv, call
  <2>3. ASSUME NEW r \in RankArgs, AllocScan(r) PROVE WantInv'
    BY <2>3 DEF AllocScan, WantInv, Begin
  <2>4. CASE Split
    BY <1>2, <2>4 DEF Split, WantInv
  <2>5. CASE Take \/ Put
    BY <2>5 DEF Take, Put, End, Begin, WantInv
  <2>6. ASSUME NEW ptr \in PtrArgs, ReturnRefuse(ptr) \/ ReturnBegin(ptr) PROVE WantInv'
    BY <1>2, <2>6 DEF ReturnRefuse, ReturnBegin, Begin, WantInv, call
  <2>7. CASE Merge
    BY <1>2, <2>7 DEF Merge, WantInv
  <2>8. CASE UNCHANGED vars
    BY <1>2, <2>8 DEF vars, call, WantInv
  <2> QED BY <1>2, <2>1, <2>2, <2>3, <2>4, <2>5, <2>6, <2>7, <2>8 DEF Next
<1>3. WantInv /\ [Next]_vars => WantInv'
  BY <1>2
<1> QED BY <1>1, <1>3, PTL DEF Spec

\* Every step is one of BuddyAbs, or does not show.
LEMMA RefineNext ==
  ASSUME ~Shrinks, IInv, TwinInv, WantInv, [Next]_vars
  PROVE  Abs!Next \/ UNCHANGED Abs!absVars
<1>1. ASSUME NEW g \in PgCounts, init_page(g) PROVE Abs!Next
  BY <1>1, RefineInitPage
<1>2. ASSUME NEW r \in RankArgs, AllocRefuse(r) PROVE Abs!Next
  BY <1>2, RefineAllocRefuse
<1>3. ASSUME NEW r \in RankArgs, AllocScan(r) PROVE UNCHANGED Abs!absVars
  <2>1. /\ pc = "idle" /\ pc' = "split"
        /\ UNCHANGED <<rank_num, status, rank, ret>>
    BY <1>3 DEF AllocScan, Begin
  <2>2. UsedSet' = UsedSet
    BY <2>1 DEF UsedSet
  <2> QED BY <2>1, <2>2, AbsStutter
<1>4. CASE Split \/ Merge \/ Put
  BY <1>4, HiddenSteps
<1>5. CASE Take
  <2>1. want \in RankArgs
    BY <1>5 DEF Take, WantInv
  <2> QED BY <1>5, <2>1, RefineTake
<1>6. ASSUME NEW ptr \in PtrArgs, ReturnRefuse(ptr) \/ ReturnBegin(ptr) PROVE Abs!Next
  BY <1>6, RefineReturn
<1>7. CASE UNCHANGED vars
  <2>1. UsedSet' = UsedSet
    BY <1>7 DEF vars, call, UsedSet, block_to_page, Width
  <2> QED BY <1>7, <2>1, AbsStutter DEF vars
<1> QED BY <1>1, <1>2, <1>3, <1>4, <1>5, <1>6, <1>7 DEF Next

(* AbsSpec: the allocator implements BuddyAbs.  An alloc_pages that succeeds
   gives out a range of free pages that is aligned to its rank, one fails
   with -ENOSPC only where no such range is left, and return_pages takes back
   exactly the pointers given out and refuses the others, for pools, pages and
   arguments of every size.  ~Shrinks: init_page is not called for a smaller
   pool than before. *)
THEOREM AllocatorImplements == ASSUME ~Shrinks PROVE Spec => AbsSpec
<1>1. IInv /\ TwinInv /\ WantInv /\ [Next]_vars => Abs!Next \/ UNCHANGED Abs!absVars
  BY RefineNext
<1>2. Spec => []IInv /\ []TwinInv /\ []WantInv
  BY InvHolds, TwinHolds, WantHolds
<1> QED BY <1>1, <1>2, RefineInit, PTL DEF Spec, AbsSpec, Abs!Spec
=============================================================================
