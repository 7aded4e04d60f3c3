---------------------------- MODULE DriverProofs ----------------------------
(* Proofs about the malloc driver: the timing package's K best, the range list, *)
(* the verdict and the score, for all traces, options and packages.             *)
EXTENDS DriverProperties, FiniteSetTheorems, SequenceTheorems, WellFoundedInduction, TLAPS

(* Two-word arithmetic, and get_counter. *)

\* Order is transitive.
LEMMA Through ==
  ASSUME NEW x \in Int, NEW y \in Int, NEW z \in Int, x =< y, y =< z
  PROVE  x =< z
OBVIOUS

\* A number is what its division by w leaves.
LEMMA DivMod ==
  ASSUME NEW w \in Nat \ {0}, NEW t \in Nat
  PROVE  /\ t \div w \in Nat /\ t % w \in 0..(w - 1)
         /\ t = (t \div w) * w + (t % w)
OBVIOUS

\* Quotient and remainder, as naturals.
LEMMA DivModIs ==
  ASSUME NEW w \in Nat \ {0}, NEW q \in Int, NEW l \in 0..(w - 1)
  PROVE  (q * w + l) \div w = q /\ (q * w + l) % w = l
OBVIOUS

\* Only one quotient and one remainder make a number.
LEMMA Unique ==
  ASSUME NEW w \in Nat \ {0}, NEW q1 \in Int, NEW r1 \in 0..(w - 1),
         NEW q2 \in Int, NEW r2 \in 0..(w - 1), q1 * w + r1 = q2 * w + r2
  PROVE  q1 = q2 /\ r1 = r2
OBVIOUS

\* The remainder of a number within w of the word.
LEMMA ModSmall ==
  ASSUME NEW w \in Nat \ {0}, NEW l \in Int
  PROVE  /\ l \in 0..(w - 1) => l % w = l
         /\ l \in w..(w + w - 1) => l % w = l - w
         /\ l + w \in 0..(w - 1) => l % w = l + w
OBVIOUS

\* Products of integers, for the words of the counter.
LEMMA Products ==
  ASSUME NEW w \in Nat, NEW x \in Int, NEW y \in Int
  PROVE  x * w \in Int /\ (x + y) * w = (x * w) + (y * w) /\ (x + 1) * w = (x * w) + w
OBVIOUS

\* What get_counter computes of the words (cl, ch) from (tl, th) to (sl, sh).
Borrows(w, th, tl, ch, cl, sh, sl) ==
  /\ (sl - tl) % w = cl
  /\ cl > sl => (sh - th - 1) % w = ch
  /\ ~(cl > sl) => (sh - th - 0) % w = ch

\* Two words added with a carry from the low ones and one out of the high ones.
LEMMA TwoWords ==
  ASSUME NEW w \in Nat \ {0}, NEW th \in 0..(w - 1), NEW tl \in 0..(w - 1),
         NEW ch \in 0..(w - 1), NEW cl \in 0..(w - 1), NEW sh \in Nat, NEW sl \in 0..(w - 1),
         NEW o \in {0, w}, (sh * w) + sl + (o * w) = (th * w) + tl + (ch * w) + cl
  PROVE  Borrows(w, th, tl, ch, cl, sh, sl)
<1> DEFINE carry == IF tl + cl >= w THEN 1 ELSE 0
           low   == IF tl + cl >= w THEN tl + cl - w ELSE tl + cl
<1>1. carry \in Int /\ low \in 0..(w - 1)
  OBVIOUS
<1>2. ((sh + o) * w) + sl = ((th + ch + carry) * w) + low
  <2>1. (sh + o) * w = (sh * w) + (o * w) /\ (sh + o) * w \in Int
    BY Products
  <2>2. (th + ch) * w = (th * w) + (ch * w) /\ (th + ch) * w \in Int
        /\ (th + ch + 1) * w = ((th + ch) * w) + w
    BY Products
  <2>3. th * w \in Int /\ ch * w \in Int /\ sh * w \in Int /\ o * w \in Int
    BY Products
  <2>4. CASE tl + cl >= w
    <3>1. carry = 1 /\ low = tl + cl - w
      BY <2>4
    <3> HIDE DEF carry, low
    <3> QED BY <2>1, <2>2, <2>3, <3>1
  <2>5. CASE ~(tl + cl >= w)
    <3>1. carry = 0 /\ low = tl + cl /\ th + ch + carry = th + ch
      BY <2>5
    <3> HIDE DEF carry, low
    <3> QED BY <2>1, <2>2, <2>3, <3>1
  <2> QED BY <2>4, <2>5
<1> HIDE DEF carry, low
<1>3. sh + o = th + ch + carry /\ sl = low
  <2>1. sh + o \in Int /\ th + ch + carry \in Int
    BY <1>1
  <2> QED BY <1>1, <1>2, <2>1, Unique
<1>4. CASE tl + cl >= w
  <2>1. carry = 1 /\ sl = tl + cl - w
    BY <1>3, <1>4 DEF carry, low
  <2>2. (sl - tl) % w = cl
    <3>1. sl - tl \in Int /\ sl - tl + w = cl
      BY <2>1
    <3> QED BY <3>1, ModSmall
  <2>3. (sh - th - 1) % w = ch
    <3>1. sh - th - 1 = ch - o /\ sh - th - 1 \in Int
      BY <1>3, <2>1
    <3> QED BY <3>1, ModSmall
  <2> QED BY <2>1, <2>2, <2>3 DEF Borrows
<1>5. CASE ~(tl + cl >= w)
  <2>1. carry = 0 /\ sl = tl + cl
    BY <1>3, <1>5 DEF carry, low
  <2>2. (sl - tl) % w = cl
    <3>1. sl - tl \in Int /\ sl - tl = cl
      BY <2>1
    <3> QED BY <3>1, ModSmall
  <2>3. (sh - th - 0) % w = ch
    <3>1. sh - th - 0 = ch - o /\ sh - th - 0 \in Int
      BY <1>3, <2>1
    <3> QED BY <3>1, ModSmall
  <2> QED BY <2>1, <2>2, <2>3 DEF Borrows
<1> QED BY <1>4, <1>5

\* get_counter: the difference of two readings is the time that has passed, through any
\* wrap of the low word and of the counter.
LEMMA DifferenceIs ==
  ASSUME NEW t \in 0 .. (Word * Word) - 1, NEW c \in 0 .. (Word * Word) - 1
  PROVE  /\ (t + c) % (Word * Word) \in 0 .. (Word * Word) - 1
         /\ Difference(access_counter(t), access_counter((t + c) % (Word * Word))) = c
<1>1. PICK w \in Nat \ {0} : w = Word
  BY SamplerAssumption
<1>2. PICK M \in Nat \ {0} : M = w * w
  <2>1. w * w \in Nat \ {0}
    OBVIOUS
  <2> QED BY <2>1
<1>3. t \in 0..(M - 1) /\ c \in 0..(M - 1)
  BY <1>1, <1>2
<1>4. PICK s \in 0..(M - 1) : s = (t + c) % M /\ (s = t + c \/ s = t + c - M)
  <2>1. t + c \in 0..(M + M - 1)
    BY <1>3
  <2>2. PICK n \in Int : n = t + c
    BY <1>3
  <2>3. n \in 0..(M - 1) \/ n \in M..(M + M - 1)
    BY <2>1, <2>2
  <2>4. /\ n \in 0..(M - 1) => n % M = n
        /\ n \in M..(M + M - 1) => n % M = n - M
    BY ModSmall
  <2>5. n % M \in 0..(M - 1) /\ (n % M = n \/ n % M = n - M)
    BY <2>3, <2>4
  <2> QED BY <2>2, <2>5
<1>5. \A n \in 0..(M - 1) : n \div w \in 0..(w - 1) /\ n % w \in 0..(w - 1)
                          /\ n = ((n \div w) * w) + (n % w)
  <2> SUFFICES ASSUME NEW n \in 0..(M - 1)
               PROVE  n \div w \in 0..(w - 1) /\ n % w \in 0..(w - 1)
                      /\ n = ((n \div w) * w) + (n % w)
    OBVIOUS
  <2>1. PICK q \in Nat, l \in 0..(w - 1) : q = n \div w /\ l = n % w /\ n = (q * w) + l
    <3>1. n \in Nat
      OBVIOUS
    <3>2. n \div w \in Nat /\ n % w \in 0..(w - 1) /\ n = ((n \div w) * w) + (n % w)
      BY <3>1, DivMod
    <3> QED BY <3>2
  <2>2. q < w
    <3> SUFFICES ASSUME q >= w PROVE FALSE
      BY <2>1
    <3>1. q * w >= w * w
      OBVIOUS
    <3>2. q * w \in Nat
      OBVIOUS
    <3> QED BY <1>2, <2>1, <3>1, <3>2
  <2> QED BY <2>1, <2>2
<1>6. PICK th \in 0..(w - 1), tl \in 0..(w - 1) : th = t \div w /\ tl = t % w /\ t = (th * w) + tl
  BY <1>3, <1>5
<1>7. PICK ch \in 0..(w - 1), cl \in 0..(w - 1) : c = (ch * w) + cl
  BY <1>3, <1>5
<1>8. PICK sh \in 0..(w - 1), sl \in 0..(w - 1) : sh = s \div w /\ sl = s % w /\ s = (sh * w) + sl
  BY <1>4, <1>5
<1>9. PICK o \in {0, w} : (sh * w) + sl + (o * w) = (th * w) + tl + (ch * w) + cl
  <2>0. th * w \in Int /\ ch * w \in Int /\ sh * w \in Int /\ 0 * w = 0
    BY Products
  <2>1. CASE s = t + c
    <3>1. (sh * w) + sl + (0 * w) = (th * w) + tl + (ch * w) + cl
      BY <1>6, <1>7, <1>8, <2>0, <2>1
    <3> QED BY <3>1
  <2>2. CASE s = t + c - M
    <3>1. (sh * w) + sl + (w * w) = (th * w) + tl + (ch * w) + cl
      BY <1>2, <1>6, <1>7, <1>8, <2>0, <2>2
    <3> QED BY <3>1
  <2> QED BY <1>4, <2>1, <2>2
<1>10. Borrows(w, th, tl, ch, cl, sh, sl)
  <2>1. sh \in Nat
    OBVIOUS
  <2> QED BY <1>9, <2>1, TwoWords
<1>11. Difference(access_counter(t), access_counter(s)) = (ch * w) + cl
  <2>1. /\ access_counter(t).lo = tl /\ access_counter(t).hi = th
        /\ access_counter(s).lo = sl /\ access_counter(s).hi = sh
    BY <1>1, <1>6, <1>8 DEF access_counter
  <2>2. CASE cl > sl
    BY <1>1, <1>10, <2>1, <2>2 DEF Difference, Borrows
  <2>3. CASE ~(cl > sl)
    BY <1>1, <1>10, <2>1, <2>3 DEF Difference, Borrows
  <2> QED BY <2>2, <2>3
<1> QED BY <1>1, <1>2, <1>4, <1>7, <1>11

\* A nonempty set of naturals has a least element.
LEMMA Least ==
  ASSUME NEW S \in SUBSET Nat, S # {}
  PROVE  \E n \in S : \A m \in S : n =< m
<1> DEFINE R == {ss \in Nat \X Nat : ss[1] < ss[2]}
<1>1. IsWellFoundedOn(R, Nat)
  BY NatLessThanWellFounded DEF OpToRel
<1>2. \A m, n \in Nat : m < n => <<m, n>> \in R
  OBVIOUS
<1>3. \E n \in S : \A m \in S : ~ (<<m, n>> \in R)
  <2> HIDE DEF R
  <2> QED BY <1>1, WFMin
<1>4. PICK n \in S : \A m \in S : ~ (<<m, n>> \in R)
  BY <1>3
<1> HIDE DEF R
<1>5. \A m \in S : ~ (m < n)
  BY <1>2, <1>4
<1> QED BY <1>5

\* A nonempty set of naturals with a bound has a greatest element.
LEMMA Greatest ==
  ASSUME NEW b \in Nat, NEW S \in SUBSET (0..b), S # {}
  PROVE  \E n \in S : \A m \in S : m =< n
<1> DEFINE D == {d \in 0..b : b - d \in S}
<1>1. D \in SUBSET Nat /\ D # {}
  <2>1. PICK n \in S : TRUE
    OBVIOUS
  <2>2. b - n \in D
    BY <2>1
  <2> QED BY <2>2
<1>2. PICK d \in D : \A e \in D : d =< e
  <2> HIDE DEF D
  <2> QED BY <1>1, Least
<1>3. b - d \in S
  OBVIOUS
<1>4. \A m \in S : m =< b - d
  <2> SUFFICES ASSUME NEW m \in S PROVE m =< b - d
    OBVIOUS
  <2>1. b - m \in D
    OBVIOUS
  <2> QED BY <1>2, <2>1
<1> QED BY <1>3, <1>4

\* What lies where in a concatenation.
LEMMA ConcatIs ==
  ASSUME NEW z \in Seq(Int), NEW y \in Seq(Int)
  PROVE  /\ (z \o y) \in Seq(Int) /\ Len(z \o y) = Len(z) + Len(y)
         /\ \A p \in 1..(Len(z) + Len(y)) : (z \o y)[p] = IF p =< Len(z) THEN z[p] ELSE y[p - Len(z)]
OBVIOUS

\* What SubSeq and concatenation do with a sequence that is cut in two.
LEMMA InsertAtIs ==
  ASSUME NEW s \in Seq(Int), NEW e \in Int, NEW at \in 1..(Len(s) + 1)
  PROVE  /\ InsertAt(s, at, e) \in Seq(Int) /\ Len(InsertAt(s, at, e)) = Len(s) + 1
         /\ \A p \in 1..(Len(s) + 1) :
              InsertAt(s, at, e)[p] = IF p < at THEN s[p] ELSE IF p = at THEN e ELSE s[p - 1]
<1> DEFINE x == SubSeq(s, 1, at - 1)   y == SubSeq(s, at, Len(s))
<1>0. Len(s) \in Nat
  OBVIOUS
<1>1. x \in Seq(Int) /\ Len(x) = at - 1 /\ \A p \in 1..(at - 1) : x[p] = s[p]
  BY <1>0
<1>2. y \in Seq(Int) /\ Len(y) = Len(s) - at + 1 /\ \A p \in 1..(Len(s) - at + 1) : y[p] = s[at + p - 1]
  BY <1>0
<1> DEFINE z == x \o <<e>>
<1> HIDE DEF x, y
<1>3. z \in Seq(Int) /\ Len(z) = at /\ \A p \in 1..at : z[p] = IF p < at THEN s[p] ELSE e
  BY <1>0, <1>1
<1>4. InsertAt(s, at, e) = z \o y
  BY DEF InsertAt, x, y
<1> HIDE DEF z
<1>5. (z \o y) \in Seq(Int) /\ Len(z \o y) = Len(s) + 1
      /\ \A p \in 1..(Len(s) + 1) : (z \o y)[p] = IF p =< at THEN z[p] ELSE y[p - at]
  <2>1. PICK m \in Nat : m = Len(z)
    BY <1>3
  <2>2. PICK n \in Nat : n = Len(y)
    <3>1. Len(y) \in Nat
      <4>1. y \in Seq(Int)
        BY Zenon, <1>2
      <4> QED BY <4>1
    <3> QED BY Zenon, <3>1
  <2>3. (z \o y) \in Seq(Int) /\ Len(z \o y) = m + n
        /\ \A p \in 1..(m + n) : (z \o y)[p] = IF p =< m THEN z[p] ELSE y[p - m]
    <3>1. z \in Seq(Int) /\ y \in Seq(Int)
      BY <1>2, <1>3
    <3> QED BY <2>1, <2>2, <3>1, ConcatIs
  <2>4. m = at /\ m + n = Len(s) + 1
    BY <1>0, <1>2, <1>3, <2>1, <2>2
  <2> QED BY <2>3, <2>4
<1>6. \A p \in 1..(Len(s) + 1) :
        (z \o y)[p] = IF p < at THEN s[p] ELSE IF p = at THEN e ELSE s[p - 1]
  <2> SUFFICES ASSUME NEW p \in 1..(Len(s) + 1)
               PROVE  (z \o y)[p] = IF p < at THEN s[p] ELSE IF p = at THEN e ELSE s[p - 1]
    OBVIOUS
  <2>1. CASE p =< at
    BY <1>0, <1>3, <1>5, <2>1
  <2>2. CASE p > at
    <3>1. p - at \in 1..(Len(s) - at + 1) /\ at + (p - at) - 1 = p - 1
      BY <1>0, <2>2
    <3>2. y[p - at] = s[at + (p - at) - 1]
      BY <1>2, <3>1
    <3> QED BY <1>0, <1>5, <2>2, <3>1, <3>2
  <2>3. p =< at \/ p > at
    BY <1>0
  <2> QED BY Zenon, <2>1, <2>2, <2>3
<1> QED BY <1>4, <1>5, <1>6

\* An entry of the range list.
Record == [lo : Int, hi : Int, index : Int]
\* t is s without its element at at.
RemovedIs(s, at, t) ==
  /\ t \in Seq(Record) /\ Len(t) = Len(s) - 1
  /\ \A p \in 1..(Len(s) - 1) : t[p] = IF p < at THEN s[p] ELSE s[p + 1]

\* What RemoveAt leaves.
LEMMA RemoveAtIs ==
  ASSUME NEW s \in Seq(Record), NEW at \in 1..Len(s)
  PROVE  RemovedIs(s, at, RemoveAt(s, at))
<1> DEFINE x == SubSeq(s, 1, at - 1)   y == SubSeq(s, at + 1, Len(s))
<1>0. Len(s) \in Nat
  OBVIOUS
<1>1. x \in Seq(Record) /\ Len(x) = at - 1 /\ \A p \in 1..(at - 1) : x[p] = s[p]
  BY <1>0
<1>2. y \in Seq(Record) /\ Len(y) = Len(s) - at /\ \A p \in 1..(Len(s) - at) : y[p] = s[at + p]
  BY <1>0
<1>3. RemoveAt(s, at) = x \o y
  BY DEF RemoveAt
<1> HIDE DEF x, y
<1>4. (x \o y) \in Seq(Record) /\ Len(x \o y) = Len(s) - 1
      /\ \A p \in 1..(Len(s) - 1) : (x \o y)[p] = IF p < at THEN x[p] ELSE y[p - at + 1]
  BY <1>0, <1>1, <1>2
<1>5. \A p \in 1..(Len(s) - 1) : (x \o y)[p] = IF p < at THEN s[p] ELSE s[p + 1]
  <2> SUFFICES ASSUME NEW p \in 1..(Len(s) - 1)
               PROVE  (x \o y)[p] = IF p < at THEN s[p] ELSE s[p + 1]
    OBVIOUS
  <2>1. CASE p < at
    BY <1>0, <1>1, <1>4, <2>1
  <2>2. CASE p >= at
    <3>1. p - at + 1 \in 1..(Len(s) - at) /\ at + (p - at + 1) = p + 1
      BY <1>0, <2>2
    <3>2. y[p - at + 1] = s[at + (p - at + 1)]
      BY <1>2, <3>1
    <3> QED BY <1>0, <1>4, <2>2, <3>1, <3>2
  <2>3. p < at \/ p >= at
    BY <1>0
  <2> QED BY Zenon, <2>1, <2>2, <2>3
<1> QED BY <1>3, <1>4, <1>5 DEF RemovedIs

-----------------------------------------------------------------------------
(* The K best. *)

\* The values that fcyc keeps are in order.
Sorted(s) == \A p, q \in 1..Len(s) : p < q => s[p] =< s[q]

\* add_sample moves the new value left to its place.
LEMMA InsertIs ==
  ASSUME NEW s \in Seq(Int), Sorted(s), NEW v \in Int
  PROVE  \E at \in 1..(Len(s) + 1) :
           /\ Insert(s, v) \in Seq(Int) /\ Len(Insert(s, v)) = Len(s) + 1
           /\ \A p \in 1..(Len(s) + 1) :
                Insert(s, v)[p] = IF p < at THEN s[p] ELSE IF p = at THEN v ELSE s[p - 1]
           /\ \A p \in 1..Len(s) : IF p < at THEN s[p] =< v ELSE v =< s[p]
<1>0. Len(s) \in Nat /\ \A p \in 1..Len(s) : s[p] \in Int
  OBVIOUS
<1> DEFINE stay == {q \in 1..Len(s) : s[q] =< v}
           m    == CHOOSE q \in stay : \A t \in stay : t =< q
           at   == IF stay = {} THEN 1 ELSE 1 + m
<1>1. Insert(s, v) = InsertAt(s, at, v)
  BY DEF Insert
<1>2. at \in 1..(Len(s) + 1) /\ \A p \in 1..Len(s) : p < at <=> p \in stay
  <2>1. CASE stay = {}
    <3>1. at = 1
      BY <2>1
    <3> HIDE DEF at, stay, m
    <3> QED BY <1>0, <2>1, <3>1
  <2>2. CASE stay # {}
    <3>1. stay \in SUBSET (0..Len(s))
      BY <1>0
    <3>2. \E q \in stay : \A t \in stay : t =< q
      <4> HIDE DEF stay
      <4> QED BY <2>2, <3>1, <1>0, Greatest
    <3>3. m \in stay /\ \A t \in stay : t =< m
      <4> HIDE DEF stay
      <4> QED BY <3>2
    <3>4. \A p \in 1..Len(s) : p < 1 + m <=> p \in stay
      <4>1. m \in 1..Len(s) /\ s[m] =< v
        BY <3>3
      <4> HIDE DEF m
      <4> SUFFICES ASSUME NEW p \in 1..Len(s) PROVE p < 1 + m <=> s[p] =< v
        OBVIOUS
      <4>2. p < m => s[p] =< s[m]
        BY <4>1 DEF Sorted
      <4>3. s[p] =< v => p =< m
        BY <3>3
      <4> QED BY <1>0, <4>1, <4>2, <4>3
    <3>5. at = 1 + m /\ m \in 1..Len(s)
      BY <2>2, <3>3
    <3> HIDE DEF at, stay, m
    <3> QED BY <1>0, <3>4, <3>5
  <2> QED BY <2>1, <2>2
<1>3. \A p \in 1..Len(s) : IF p < at THEN s[p] =< v ELSE v =< s[p]
  <2> SUFFICES ASSUME NEW p \in 1..Len(s) PROVE IF p < at THEN s[p] =< v ELSE v =< s[p]
    OBVIOUS
  <2>1. p < at <=> s[p] =< v
    BY <1>2
  <2> HIDE DEF at
  <2> QED BY <1>0, <2>1
<1> HIDE DEF at
<1>4. PICK n \in 1..(Len(s) + 1) : n = at
  BY <1>2
<1>5. /\ InsertAt(s, n, v) \in Seq(Int) /\ Len(InsertAt(s, n, v)) = Len(s) + 1
      /\ \A p \in 1..(Len(s) + 1) :
           InsertAt(s, n, v)[p] = IF p < n THEN s[p] ELSE IF p = n THEN v ELSE s[p - 1]
  <2>1. v \in Int
    OBVIOUS
  <2> QED BY <2>1, InsertAtIs
<1>6. Insert(s, v) = InsertAt(s, n, v)
  BY <1>1, <1>4
<1> QED BY <1>3, <1>4, <1>5, <1>6

\* An injection of a sequence's places into as many places of another meets them all.
LEMMA AllPicked ==
  ASSUME NEW n \in Nat, NEW g \in [1..n -> 1..n], \A p, q \in 1..n : g[p] = g[q] => p = q,
         NEW y \in 1..n
  PROVE  \E p \in 1..n : g[p] = y
<1>1. IsFiniteSet(1..n)
  BY FS_Interval
<1>2. g \in Injection(1..n, 1..n)
  BY DEF Injection, IsInjective
<1>3. g \in Surjection(1..n, 1..n)
  BY <1>1, <1>2, FS_Injection
<1> QED BY <1>3 DEF Surjection

\* g says which of the samples s the values w are.
Picks(g, w, s) ==
  /\ g \in [1..Len(w) -> 1..Len(s)]
  /\ \A p, q \in 1..Len(w) : g[p] = g[q] => p = q
  /\ \A p \in 1..Len(w) : w[p] = s[g[p]]
Unpicked(g, w, y) == \A p \in 1..Len(w) : g[p] # y
Below(w, b) == \A p \in 1..Len(w) : w[p] =< b

\* A new sample put in its place.
LEMMA PickMore ==
  ASSUME NEW w \in Seq(Int), Sorted(w), NEW s \in Seq(Int), NEW x \in Int,
         NEW g, Picks(g, w, s)
  PROVE  \E u \in Seq(Int), t \in Seq(Int) :
           /\ u = Insert(w, x) /\ t = Append(s, x)
           /\ Len(u) = Len(w) + 1 /\ Len(t) = Len(s) + 1
           /\ \A p \in 1..Len(s) : t[p] = s[p]
           /\ Sorted(u)
           /\ \A b \in Int : Below(w, b) /\ x =< b => Below(u, b)
           /\ \E h : /\ Picks(h, u, t)
                     /\ \A y \in 1..Len(t) : Unpicked(h, u, y) => y \in 1..Len(s) /\ Unpicked(g, w, y)
<1>0. PICK m \in Nat, n \in Nat : m = Len(w) /\ n = Len(s)
  OBVIOUS
<1>1. \A p \in 1..m : w[p] \in Int
  BY <1>0
<1>2. PICK at \in 1..(m + 1) :
           /\ Insert(w, x) \in Seq(Int) /\ Len(Insert(w, x)) = m + 1
           /\ \A p \in 1..(m + 1) :
                Insert(w, x)[p] = IF p < at THEN w[p] ELSE IF p = at THEN x ELSE w[p - 1]
           /\ \A p \in 1..m : IF p < at THEN w[p] =< x ELSE x =< w[p]
  BY <1>0, InsertIs
<1>3. PICK u \in Seq(Int) : u = Insert(w, x)
  BY <1>2
<1>4. PICK t \in Seq(Int) : t = Append(s, x)
  <2>1. Append(s, x) \in Seq(Int)
    OBVIOUS
  <2> QED BY <2>1
<1>5. Len(t) = n + 1 /\ t[n + 1] = x /\ \A p \in 1..n : t[p] = s[p]
  BY <1>0, <1>4
<1>6. Len(u) = m + 1
      /\ \A p \in 1..(m + 1) : /\ p < at => p \in 1..m /\ u[p] = w[p]
                               /\ p = at => u[p] = x
                               /\ p > at => p - 1 \in 1..m /\ u[p] = w[p - 1]
  BY <1>2, <1>3
<1>7. Sorted(u)
  <2> SUFFICES ASSUME NEW p \in 1..(m + 1), NEW q \in 1..(m + 1), p < q PROVE u[p] =< u[q]
    BY <1>6 DEF Sorted
  <2>1. \A a, b \in 1..m : a < b => w[a] =< w[b]
    BY <1>0 DEF Sorted
  <2>0. p \in Int /\ q \in Int /\ at \in Int
    OBVIOUS
  <2>2. CASE q < at
    <3>1. p \in 1..m /\ q \in 1..m /\ u[p] = w[p] /\ u[q] = w[q]
      <4>1. p < at
        BY <2>0, <2>2
      <4> QED BY <1>6, <2>2, <4>1
    <3>2. w[p] =< w[q]
      BY <2>1, <3>1
    <3> QED BY <3>1, <3>2
  <2>3. CASE q = at
    <3>1. p \in 1..m /\ p < at /\ u[p] = w[p] /\ u[q] = x
      BY <1>6, <2>3
    <3>2. w[p] =< x
      BY <1>2, <3>1
    <3> QED BY <3>1, <3>2
  <2>4. CASE q > at /\ p = at
    <3>1. q - 1 \in 1..m /\ ~(q - 1 < at)
      BY <2>4
    <3>2. x =< w[q - 1]
      BY <1>2, <3>1
    <3>3. u[p] = x /\ u[q] = w[q - 1]
      BY <1>6, <2>4
    <3> QED BY <3>2, <3>3
  <2>5. CASE q > at /\ p < at
    <3>1. q - 1 \in 1..m /\ ~(q - 1 < at) /\ p \in 1..m /\ w[p] \in Int /\ w[q - 1] \in Int
      BY <1>1, <2>5
    <3>2. w[p] =< x /\ x =< w[q - 1]
      BY <1>2, <2>5, <3>1
    <3>3. w[p] =< w[q - 1]
      BY <3>1, <3>2, Through
    <3>4. u[p] = w[p] /\ u[q] = w[q - 1]
      BY <1>6, <2>5
    <3> QED BY <3>3, <3>4
  <2>6. CASE q > at /\ p > at
    <3>1. q - 1 \in 1..m /\ p - 1 \in 1..m /\ p - 1 < q - 1
      BY <2>6
    <3>2. u[p] = w[p - 1] /\ u[q] = w[q - 1]
      BY <1>6, <2>6
    <3>3. w[p - 1] =< w[q - 1]
      BY <2>1, <3>1
    <3> QED BY <3>2, <3>3
  <2> QED BY <2>2, <2>3, <2>4, <2>5, <2>6
<1>8. \A b \in Int : Below(w, b) /\ x =< b => Below(u, b)
  <2> SUFFICES ASSUME NEW b \in Int, Below(w, b), x =< b, NEW p \in 1..(m + 1) PROVE u[p] =< b
    BY <1>6 DEF Below
  <2>1. \A q \in 1..m : w[q] =< b
    BY <1>0 DEF Below
  <2>2. p < at => p \in 1..m
    OBVIOUS
  <2>3. p > at => p - 1 \in 1..m
    OBVIOUS
  <2>4. CASE p < at
    BY <1>6, <2>1, <2>2, <2>4
  <2>5. CASE p = at
    BY <1>6, <2>5
  <2>6. CASE p > at
    BY <1>6, <2>1, <2>3, <2>6
  <2> QED BY <2>4, <2>5, <2>6
<1>9. \A p \in 1..m : g[p] \in 1..n /\ w[p] = s[g[p]]
  BY <1>0 DEF Picks
<1>10. \A p, q \in 1..m : g[p] = g[q] => p = q
  BY <1>0 DEF Picks
<1> DEFINE h == [p \in 1..(m + 1) |-> IF p < at THEN g[p] ELSE IF p = at THEN n + 1 ELSE g[p - 1]]
<1>11. \A p \in 1..(m + 1) : /\ p < at => p \in 1..m /\ h[p] = g[p]
                             /\ p = at => h[p] = n + 1
                             /\ p > at => p - 1 \in 1..m /\ h[p] = g[p - 1]
  OBVIOUS
<1>12. h \in [1..(m + 1) -> 1..(n + 1)]
  <2> SUFFICES ASSUME NEW p \in 1..(m + 1) PROVE h[p] \in 1..(n + 1)
    OBVIOUS
  <2> HIDE DEF h
  <2>2. p < at => p \in 1..m
    OBVIOUS
  <2>3. p > at => p - 1 \in 1..m
    OBVIOUS
  <2>4. CASE p < at
    <3>1. p \in 1..m /\ h[p] = g[p]
      BY <1>11, <2>4
    <3>2. g[p] \in 1..n
      BY <1>9, <3>1
    <3> QED BY <3>1, <3>2
  <2>5. CASE p = at
    BY <1>11, <2>5
  <2>6. CASE p > at
    BY <1>9, <1>11, <2>3, <2>6
  <2> QED BY <2>4, <2>5, <2>6
<1> HIDE DEF h
<1>13. Picks(h, u, t)
  <2>1. ASSUME NEW p \in 1..(m + 1), NEW q \in 1..(m + 1), h[p] = h[q] PROVE p = q
    <3>1. p < at => p \in 1..m /\ h[p] = g[p] /\ g[p] # n + 1
      BY <1>9, <1>11
    <3>2. p > at => p - 1 \in 1..m /\ h[p] = g[p - 1] /\ g[p - 1] # n + 1
      BY <1>9, <1>11
    <3>3. q < at => q \in 1..m /\ h[q] = g[q] /\ g[q] # n + 1
      BY <1>9, <1>11
    <3>4. q > at => q - 1 \in 1..m /\ h[q] = g[q - 1] /\ g[q - 1] # n + 1
      BY <1>9, <1>11
    <3>5. (p = at => h[p] = n + 1) /\ (q = at => h[q] = n + 1)
      BY <1>11
    <3>6. CASE p < at
      <4>1. CASE q < at BY <1>10, <2>1, <3>1, <3>3, <3>6, <4>1
      <4>2. CASE q = at BY <2>1, <3>1, <3>5, <3>6, <4>2
      <4>3. CASE q > at BY <1>10, <2>1, <3>1, <3>4, <3>6, <4>3
      <4> QED BY <4>1, <4>2, <4>3
    <3>7. CASE p = at
      <4>1. CASE q < at BY <2>1, <3>5, <3>3, <3>7, <4>1
      <4>2. CASE q = at BY <3>7, <4>2
      <4>3. CASE q > at BY <2>1, <3>5, <3>4, <3>7, <4>3
      <4> QED BY <4>1, <4>2, <4>3
    <3>8. CASE p > at
      <4>1. CASE q < at BY <1>10, <2>1, <3>2, <3>3, <3>8, <4>1
      <4>2. CASE q = at BY <2>1, <3>2, <3>5, <3>8, <4>2
      <4>3. CASE q > at BY <1>10, <2>1, <3>2, <3>4, <3>8, <4>3
      <4> QED BY <4>1, <4>2, <4>3
    <3> QED BY <3>6, <3>7, <3>8
  <2>2. ASSUME NEW p \in 1..(m + 1) PROVE u[p] = t[h[p]]
    <3>1. CASE p < at
      <4>1. p \in 1..m /\ h[p] = g[p] /\ u[p] = w[p]
        BY <1>6, <1>11, <3>1
      <4> QED BY <1>5, <1>9, <4>1
    <3>2. CASE p = at
      BY <1>5, <1>6, <1>11, <3>2
    <3>3. CASE p > at
      <4>1. p - 1 \in 1..m /\ h[p] = g[p - 1] /\ u[p] = w[p - 1]
        BY <1>6, <1>11, <3>3
      <4> QED BY <1>5, <1>9, <4>1
    <3> QED BY <3>1, <3>2, <3>3
  <2> QED BY <1>5, <1>6, <1>12, <2>1, <2>2 DEF Picks
<1>14. ASSUME NEW y \in 1..(n + 1), Unpicked(h, u, y) PROVE y \in 1..n /\ Unpicked(g, w, y)
  <2>1. \A p \in 1..(m + 1) : h[p] # y
    BY <1>6, <1>14 DEF Unpicked
  <2>2. y # n + 1
    <3>1. at \in 1..(m + 1) /\ h[at] = n + 1
      BY <1>11
    <3> QED BY <2>1, <3>1
  <2>3. ASSUME NEW p \in 1..m PROVE g[p] # y
    <3>1. CASE p < at
      <4>1. p \in 1..(m + 1) /\ h[p] = g[p]
        BY <1>11, <3>1
      <4> QED BY <2>1, <4>1
    <3>2. CASE ~(p < at)
      <4>1. p + 1 \in 1..(m + 1) /\ h[p + 1] = g[p + 1 - 1] /\ p + 1 - 1 = p
        BY <1>11, <3>2
      <4> QED BY <2>1, <4>1
    <3> QED BY <3>1, <3>2
  <2>4. y \in 1..n
    BY <2>2
  <2>5. Unpicked(g, w, y)
    BY <1>0, <2>3 DEF Unpicked
  <2> QED BY <2>4, <2>5
<1> QED BY <1>0, <1>3, <1>4, <1>5, <1>6, <1>7, <1>8, <1>13, <1>14

\* Smallest, with the places named.
LEMMA SmallestIs ==
  ASSUME NEW v \in Seq(Int), NEW s \in Seq(Int), NEW n \in Nat
  PROVE  Smallest(v, s, n) <=>
           /\ Len(v) = IF Len(s) < n THEN Len(s) ELSE n
           /\ Sorted(v)
           /\ \E g : Picks(g, v, s) /\ \A y \in 1..Len(s) : Unpicked(g, v, y) => Below(v, s[y])
<1>1. DOMAIN v = 1..Len(v) /\ DOMAIN s = 1..Len(s)
  OBVIOUS
<1>2. ASSUME Smallest(v, s, n)
      PROVE  /\ Len(v) = IF Len(s) < n THEN Len(s) ELSE n
             /\ Sorted(v)
             /\ \E g : Picks(g, v, s) /\ \A y \in 1..Len(s) : Unpicked(g, v, y) => Below(v, s[y])
  <2>0. PICK g \in [DOMAIN v -> DOMAIN s] :
         /\ \A p, q \in DOMAIN v : g[p] = g[q] => p = q
         /\ \A p \in DOMAIN v : v[p] = s[g[p]]
         /\ \A y \in DOMAIN s : (\A p \in DOMAIN v : g[p] # y) => \A p \in DOMAIN v : v[p] =< s[y]
    BY Zenon, <1>2 DEF Smallest
  <2>1. /\ g \in [1..Len(v) -> 1..Len(s)]
        /\ \A p, q \in 1..Len(v) : g[p] = g[q] => p = q
        /\ \A p \in 1..Len(v) : v[p] = s[g[p]]
        /\ \A y \in 1..Len(s) : (\A p \in 1..Len(v) : g[p] # y) => \A p \in 1..Len(v) : v[p] =< s[y]
    BY <1>1, <2>0
  <2>2. Picks(g, v, s)
    BY <2>1 DEF Picks
  <2>3. \A y \in 1..Len(s) : Unpicked(g, v, y) => Below(v, s[y])
    BY <2>1 DEF Unpicked, Below
  <2>4. Sorted(v) /\ Len(v) = IF Len(s) < n THEN Len(s) ELSE n
    <3>1. (\A p, q \in DOMAIN v : p < q => v[p] =< v[q]) /\ Len(v) = IF Len(s) < n THEN Len(s) ELSE n
      BY Zenon, <1>2 DEF Smallest
    <3> QED BY <1>1, <3>1 DEF Sorted
  <2> QED BY <2>2, <2>3, <2>4
<1>3. ASSUME Len(v) = IF Len(s) < n THEN Len(s) ELSE n, Sorted(v),
             NEW g, Picks(g, v, s), \A y \in 1..Len(s) : Unpicked(g, v, y) => Below(v, s[y])
      PROVE  Smallest(v, s, n)
  <2>1. g \in [DOMAIN v -> DOMAIN s] /\ (\A p, q \in DOMAIN v : g[p] = g[q] => p = q)
        /\ \A p \in DOMAIN v : v[p] = s[g[p]]
    BY <1>1, <1>3 DEF Picks
  <2>2. \A y \in DOMAIN s : (\A p \in DOMAIN v : g[p] # y) => \A p \in DOMAIN v : v[p] =< s[y]
    BY <1>1, <1>3 DEF Unpicked, Below
  <2>3. \A p, q \in DOMAIN v : p < q => v[p] =< v[q]
    BY <1>1, <1>3 DEF Sorted
  <2> QED BY <1>3, <2>1, <2>2, <2>3 DEF Smallest
<1> QED BY <1>2, <1>3

\* Fewer than n samples so far: the new one is put in.
LEMMA SmallestInsert ==
  ASSUME NEW v \in Seq(Int), NEW s \in Seq(Int), NEW n \in Nat \ {0}, NEW x \in Int,
         Smallest(v, s, n), Len(s) < n
  PROVE  Insert(v, x) \in Seq(Int) /\ Smallest(Insert(v, x), Append(s, x), n)
<1>0. n \in Nat /\ x \in Int
  OBVIOUS
<1>1. Len(v) = Len(s) /\ Sorted(v)
  BY SmallestIs
<1>2. PICK g : Picks(g, v, s)
  BY SmallestIs
<1>3. PICK u \in Seq(Int), t \in Seq(Int) :
           /\ u = Insert(v, x) /\ t = Append(s, x)
           /\ Len(u) = Len(v) + 1 /\ Len(t) = Len(s) + 1
           /\ \A p \in 1..Len(s) : t[p] = s[p]
           /\ Sorted(u)
           /\ \A b \in Int : Below(v, b) /\ x =< b => Below(u, b)
           /\ \E h : /\ Picks(h, u, t)
                     /\ \A y \in 1..Len(t) : Unpicked(h, u, y) => y \in 1..Len(s) /\ Unpicked(g, v, y)
  BY <1>0, <1>1, <1>2, PickMore
<1>4. PICK h : /\ Picks(h, u, t)
               /\ \A y \in 1..Len(t) : Unpicked(h, u, y) => y \in 1..Len(s) /\ Unpicked(g, v, y)
  BY <1>3
<1>5. \A y \in 1..Len(s) : ~ Unpicked(g, v, y)
  <2>0. PICK m \in Nat : m = Len(s)
    OBVIOUS
  <2>1. g \in [1..m -> 1..m] /\ \A p, q \in 1..m : g[p] = g[q] => p = q
    BY <1>1, <1>2, <2>0 DEF Picks
  <2>2. \A y \in 1..m : \E p \in 1..m : g[p] = y
    BY <2>1, AllPicked
  <2> QED BY <1>1, <2>0, <2>2 DEF Unpicked
<1>6. \A y \in 1..Len(t) : Unpicked(h, u, y) => Below(u, t[y])
  BY <1>4, <1>5
<1>7. Len(u) = IF Len(t) < n THEN Len(t) ELSE n
  BY <1>1, <1>3
<1>8. Smallest(u, t, n)
  BY <1>0, <1>3, <1>4, <1>6, <1>7, SmallestIs
<1> QED BY <1>3, <1>8

\* A sequence without its last element.
LEMMA FrontIs ==
  ASSUME NEW v \in Seq(Int), NEW n \in Nat \ {0}, Len(v) = n
  PROVE  /\ Front(v) \in Seq(Int) /\ Len(Front(v)) = n - 1
         /\ \A p \in 1..(n - 1) : Front(v)[p] = v[p]
BY DEF Front

\* The new one is smaller than the greatest of the n, which goes.
LEMMA SmallestReplace ==
  ASSUME NEW v \in Seq(Int), NEW s \in Seq(Int), NEW n \in Nat \ {0}, NEW x \in Int,
         Smallest(v, s, n), Len(s) >= n, x < v[n]
  PROVE  Insert(Front(v), x) \in Seq(Int) /\ Smallest(Insert(Front(v), x), Append(s, x), n)
<1>0. n \in Nat /\ x \in Int /\ Len(s) \in Nat
  OBVIOUS
<1>1. Len(v) = n /\ Sorted(v)
  BY <1>0, SmallestIs
<1>2. PICK g : Picks(g, v, s) /\ \A y \in 1..Len(s) : Unpicked(g, v, y) => Below(v, s[y])
  BY <1>0, SmallestIs
<1>3. PICK w \in Seq(Int) : /\ w = Front(v) /\ Len(w) = n - 1
                            /\ \A p \in 1..(n - 1) : w[p] = v[p]
  BY <1>1, FrontIs
<1>4. Sorted(w)
  BY <1>1, <1>3 DEF Sorted
<1>5. PICK f : f = [p \in 1..(n - 1) |-> g[p]]
  OBVIOUS
<1>6. Picks(f, w, s)
  <2>1. g \in [1..n -> 1..Len(s)] /\ (\A p, q \in 1..n : g[p] = g[q] => p = q)
        /\ \A p \in 1..n : v[p] = s[g[p]]
    BY <1>1, <1>2 DEF Picks
  <2>2. \A p \in 1..(n - 1) : p \in 1..n /\ f[p] = g[p] /\ w[p] = s[f[p]]
    BY <1>3, <1>5, <2>1
  <2>3. f \in [1..(n - 1) -> 1..Len(s)]
    BY <1>5, <2>1, <2>2
  <2>4. \A p, q \in 1..(n - 1) : f[p] = f[q] => p = q
    BY <2>1, <2>2
  <2> QED BY <1>3, <2>2, <2>3, <2>4 DEF Picks
<1>7. PICK u \in Seq(Int), t \in Seq(Int) :
           /\ u = Insert(w, x) /\ t = Append(s, x)
           /\ Len(u) = Len(w) + 1 /\ Len(t) = Len(s) + 1
           /\ \A p \in 1..Len(s) : t[p] = s[p]
           /\ Sorted(u)
           /\ \A b \in Int : Below(w, b) /\ x =< b => Below(u, b)
           /\ \E h : /\ Picks(h, u, t)
                     /\ \A y \in 1..Len(t) : Unpicked(h, u, y) => y \in 1..Len(s) /\ Unpicked(f, w, y)
  BY <1>0, <1>4, <1>6, PickMore
<1>8. PICK h : /\ Picks(h, u, t)
               /\ \A y \in 1..Len(t) : Unpicked(h, u, y) => y \in 1..Len(s) /\ Unpicked(f, w, y)
  BY <1>7
<1>9. v[n] \in Int /\ \A p \in 1..n : v[p] =< v[n]
  <2>1. n \in 1..n /\ \A p \in 1..n : v[p] \in Int
    BY <1>1
  <2>2. \A p \in 1..n : p < n => v[p] =< v[n]
    BY <1>1, <2>1 DEF Sorted
  <2>3. \A p \in 1..n : p < n \/ p = n
    OBVIOUS
  <2> QED BY <2>1, <2>2, <2>3
<1>10. ASSUME NEW y \in 1..Len(t), Unpicked(h, u, y) PROVE Below(u, t[y])
  <2>1. y \in 1..Len(s) /\ Unpicked(f, w, y) /\ t[y] = s[y] /\ s[y] \in Int
    BY <1>7, <1>8, <1>10
  <2>2. v[n] =< s[y]
    <3>1. CASE g[n] = y
      <4>1. n \in 1..Len(v)
        BY <1>1
      <4>2. v[n] = s[g[n]]
        BY <1>2, <4>1 DEF Picks
      <4> QED BY <1>9, <2>1, <3>1, <4>2
    <3>2. CASE g[n] # y
      <4>1. \A p \in 1..(n - 1) : g[p] # y
        BY <1>3, <1>5, <2>1 DEF Unpicked
      <4>2. \A p \in 1..n : p \in 1..(n - 1) \/ p = n
        OBVIOUS
      <4>3. Unpicked(g, v, y)
        BY <1>1, <3>2, <4>1, <4>2 DEF Unpicked
      <4>4. Below(v, s[y]) /\ n \in 1..Len(v)
        BY <1>1, <1>2, <2>1, <4>3
      <4> QED BY <4>4 DEF Below
    <3> QED BY <3>1, <3>2
  <2>3. x =< s[y]
    <3>1. x \in Int /\ v[n] \in Int /\ s[y] \in Int /\ x =< v[n]
      BY <1>9, <2>1
    <3>2. PICK b \in Int : b = v[n]
      BY <3>1
    <3>3. PICK c \in Int : c = s[y]
      BY <3>1
    <3>4. x =< b /\ b =< c
      BY <2>2, <3>1, <3>2, <3>3
    <3>5. x =< c
      BY <3>4
    <3> QED BY <3>3, <3>5
  <2>4. Below(w, s[y])
    <3> SUFFICES ASSUME NEW p \in 1..(n - 1) PROVE w[p] =< s[y]
      BY <1>3 DEF Below
    <3>1. w[p] = v[p] /\ p \in 1..n
      BY <1>3
    <3>2. v[p] \in Int /\ v[p] =< v[n]
      BY <1>1, <1>9, <3>1
    <3>3. v[n] \in Int /\ s[y] \in Int
      BY <1>9, <2>1
    <3>4. v[p] =< s[y]
      BY <2>2, <3>2, <3>3, Through
    <3> QED BY <3>1, <3>4
  <2> QED BY <1>7, <2>1, <2>3, <2>4
<1>11. Len(u) = IF Len(t) < n THEN Len(t) ELSE n
  BY <1>0, <1>3, <1>7
<1>12. Smallest(u, t, n)
  BY <1>0, <1>7, <1>8, <1>10, <1>11, SmallestIs
<1> QED BY <1>3, <1>7, <1>12

\* The new one is not smaller.
LEMMA SmallestKeep ==
  ASSUME NEW v \in Seq(Int), NEW s \in Seq(Int), NEW n \in Nat \ {0}, NEW x \in Int,
         Smallest(v, s, n), Len(s) >= n, ~(x < v[n])
  PROVE  Smallest(v, Append(s, x), n)
<1>0. n \in Nat /\ x \in Int /\ Len(s) \in Nat
  OBVIOUS
<1>1. Len(v) = n /\ Sorted(v)
  BY <1>0, SmallestIs
<1>2. PICK g : Picks(g, v, s) /\ \A y \in 1..Len(s) : Unpicked(g, v, y) => Below(v, s[y])
  BY <1>0, SmallestIs
<1>3. PICK t \in Seq(Int) : t = Append(s, x)
  <2>1. Append(s, x) \in Seq(Int)
    OBVIOUS
  <2> QED BY <2>1
<1>4. Len(t) = Len(s) + 1 /\ t[Len(s) + 1] = x /\ \A p \in 1..Len(s) : t[p] = s[p]
  BY <1>0, <1>3
<1>5. Picks(g, v, t)
  <2>1. \A p \in 1..Len(v) : g[p] \in 1..Len(s) /\ v[p] = s[g[p]]
    BY <1>2 DEF Picks
  <2>2. g \in [1..Len(v) -> 1..Len(t)]
    BY <1>0, <1>2, <1>4 DEF Picks
  <2>3. \A p \in 1..Len(v) : v[p] = t[g[p]]
    BY <1>4, <2>1
  <2> QED BY <1>2, <2>2, <2>3 DEF Picks
<1>6. ASSUME NEW y \in 1..Len(t), Unpicked(g, v, y) PROVE Below(v, t[y])
  <2>1. CASE y \in 1..Len(s)
    BY <1>2, <1>4, <1>6, <2>1
  <2>2. CASE y = Len(s) + 1
    <3> SUFFICES ASSUME NEW p \in 1..n PROVE v[p] =< x
      BY <1>1, <1>4, <2>2 DEF Below
    <3>1. n \in 1..n /\ v[p] \in Int /\ v[n] \in Int
      BY <1>1
    <3>2. p < n => v[p] =< v[n]
      BY <1>1, <3>1 DEF Sorted
    <3>3. p < n \/ p = n
      OBVIOUS
    <3> QED BY <3>1, <3>2, <3>3
  <2> QED BY <1>0, <1>4, <2>1, <2>2
<1>7. Len(v) = IF Len(t) < n THEN Len(t) ELSE n
  BY <1>0, <1>1, <1>4
<1>8. Smallest(v, t, n)
  BY <1>0, <1>1, <1>5, <1>6, <1>7, SmallestIs
<1> QED BY <1>3, <1>8

-----------------------------------------------------------------------------
\* The state of the timing package between two calls.
FInv == /\ tsc \in 0 .. (Word * Word) - 1 /\ cyc_per_tick \in Nat
        /\ values \in Seq(Int) /\ samples \in Seq(Int) /\ samplecount = Len(samples)
        /\ Smallest(values, samples, kbest)

\* No samples: init_sampler's values are the smallest of none.
LEMMA FreshSampler == Smallest(<<>>, <<>>, kbest)
<1>1. kbest \in Nat \ {0}
  BY SamplerAssumption
<1>2. PICK v \in Seq(Int) : v = <<>> /\ Len(v) = 0
  <2>1. <<>> \in Seq(Int) /\ Len(<<>>) = 0
    OBVIOUS
  <2> QED BY <2>1
<1>3. PICK g : g = [p \in 1..0 |-> 0]
  OBVIOUS
<1>4. Picks(g, v, v) /\ Sorted(v)
  BY <1>2, <1>3 DEF Picks, Sorted
<1>5. \A y \in 1..Len(v) : Unpicked(g, v, y) => Below(v, v[y])
  BY <1>2
<1>6. Len(v) = IF Len(v) < kbest THEN Len(v) ELSE kbest
  BY <1>1, <1>2
<1>7. Smallest(v, v, kbest)
  BY <1>1, <1>4, <1>5, <1>6, SmallestIs
<1> QED BY <1>2, <1>7

\* The sampler starts right.
LEMMA FcycInitially == FcycInit => FInv
<1> SUFFICES ASSUME FcycInit PROVE FInv
  OBVIOUS
<1>1. tsc \in 0 .. (Word * Word) - 1
  <2>1. PICK w \in Nat \ {0} : w = Word
    BY SamplerAssumption
  <2>2. w * w \in Nat /\ w * w >= w
    OBVIOUS
  <2>3. tsc \in {0, w - 1, (w * w) - 1}
    BY <2>1 DEF FcycInit
  <2>4. tsc \in 0 .. (w * w) - 1
    <3>1. PICK M \in Nat : M = w * w /\ M >= w
      BY <2>2
    <3> QED BY <2>3, <3>1
  <2> QED BY <2>1, <2>4
<1> QED BY <1>1, FreshSampler DEF FcycInit, FInv

\* init_sampler starts it again.
LEMMA SamplerReset == FInv /\ init_sampler => FInv'
BY FreshSampler DEF FInv, init_sampler

\* One run: start_counter, get_counter and add_sample, through any wrap of the counter.
LEMMA SampleStep ==
  ASSUME FInv, NEW cost \in Costs, NEW ticks \in Ticks, Sample(cost, ticks)
  PROVE  FInv'
<1>1. PICK t \in 0 .. (Word * Word) - 1, c \in 0 .. (Word * Word) - 1 : t = tsc /\ c = cost
  BY SamplerAssumption DEF FInv
<1>2. tsc' = (t + c) % (Word * Word)
  BY <1>1 DEF Sample
<1>3. /\ tsc' \in 0 .. (Word * Word) - 1
      /\ Difference(access_counter(tsc), access_counter(tsc')) = cost
  BY <1>1, <1>2, DifferenceIs
<1>4. cyc_per_tick' \in Nat
  BY SamplerAssumption DEF FInv, Sample, Calibrated
<1>5. PICK x \in Int : x = Corrected(cost, ticks)
  <2>1. PICK d \in Nat, u \in Nat : d = ticks /\ u = cyc_per_tick'
    BY <1>4, SamplerAssumption
  <2>2. d * u \in Int
    OBVIOUS
  <2>3. c - (d * u) \in Int
    BY <2>2
  <2> QED BY <1>1, <2>1, <2>3 DEF Corrected
<1>6. add_sample(x) /\ samples' = Append(samples, x)
  BY <1>3, <1>5 DEF Sample
<1>7. PICK n \in Nat \ {0} : n = kbest
  BY SamplerAssumption
<1>8. PICK v \in Seq(Int), s \in Seq(Int) : v = values /\ s = samples /\ Smallest(v, s, n)
  BY <1>7 DEF FInv
<1>9. samples' = Append(s, x) /\ Append(s, x) \in Seq(Int) /\ samplecount' = Len(samples')
  <2>1. Append(s, x) \in Seq(Int) /\ Len(Append(s, x)) = Len(s) + 1
    OBVIOUS
  <2> QED BY <1>6, <1>8, <2>1 DEF add_sample, FInv
<1>10. values' = IF Len(s) < n THEN Insert(v, x)
                 ELSE IF x < v[n] THEN Insert(Front(v), x) ELSE v
  BY <1>6, <1>7, <1>8 DEF add_sample, FInv
<1>11. values' \in Seq(Int) /\ Smallest(values', Append(s, x), n)
  <2>0. Len(s) \in Nat
    OBVIOUS
  <2>1. CASE Len(s) < n
    BY <1>8, <1>10, <2>1, SmallestInsert
  <2>2. CASE Len(s) >= n /\ x < v[n]
    <3>1. values' = Insert(Front(v), x)
      BY <2>0, <1>10, <2>2
    <3> QED BY <1>8, <2>2, <3>1, SmallestReplace
  <2>3. CASE Len(s) >= n /\ ~(x < v[n])
    <3>1. values' = v
      BY <2>0, <1>10, <2>3
    <3> QED BY <1>8, <2>3, <3>1, SmallestKeep
  <2>4. Len(s) < n \/ Len(s) >= n
    BY <2>0
  <2> QED BY <2>1, <2>2, <2>3, <2>4
<1> QED BY <1>3, <1>4, <1>7, <1>9, <1>11 DEF FInv

\* Which steps of the driver touch the timing package, and how.
LEMMA FInvStep == FInv /\ [Next]_vars => FInv'
<1> SUFFICES ASSUME FInv, [Next]_vars PROVE FInv'
  OBVIOUS
<1>1. ASSUME UNCHANGED fvars PROVE FInv'
  BY <1>1 DEF FInv, fvars
<1>2. CASE UNCHANGED vars
  BY <1>1, <1>2 DEF vars
<1>3. CASE Step
  <2>1. read_trace => UNCHANGED fvars
    BY DEF read_trace
  <2>2. eval_libc_valid => init_sampler
    BY DEF eval_libc_valid
  <2>3. free_trace => UNCHANGED fvars
    BY DEF free_trace
  <2>4. StartValid => UNCHANGED fvars
    BY DEF StartValid
  <2>5. ALLOC => UNCHANGED fvars
    BY DEF ALLOC, ValidFrame
  <2>6. REALLOC => UNCHANGED fvars
    BY DEF REALLOC, ValidFrame
  <2>7. FREE => UNCHANGED fvars
    BY DEF FREE, ValidFrame
  <2>8. Judged => UNCHANGED fvars
    BY DEF Judged
  <2>9. MeasureSpace => UNCHANGED fvars
    BY DEF MeasureSpace
  <2>10. Measured => init_sampler
    BY DEF Measured
  <2>11. Timed => init_sampler
    BY DEF Timed
  <2>12. ReplayFails => UNCHANGED fvars
    BY DEF ReplayFails
  <2>13. Report => UNCHANGED fvars
    BY DEF Report
  <2>14. CASE TimeRun
    <3>1. PICK cost \in Costs, ticks \in Ticks : Sample(cost, ticks)
      BY <2>14 DEF TimeRun
    <3> QED BY <3>1, SampleStep
  <2> QED BY <1>1, <1>3, <2>1, <2>2, <2>3, <2>4, <2>5, <2>6, <2>7, <2>8, <2>9, <2>10, <2>11,
             <2>12, <2>13, <2>14, SamplerReset DEF Step
<1>4. CASE Hang
  BY <1>1, <1>4 DEF Hang
<1>5. CASE timeout_handler
  BY <1>1, <1>5 DEF timeout_handler
<1> QED BY <1>2, <1>3, <1>4, <1>5 DEF Next

\* fcyc's values are the kbest smallest of the times that the runs took, in order, whatever
\* the counter was at the start (start_counter, get_counter, add_sample).
THEOREM KBestHolds == Spec => []KBest
<1>1. Init => FInv
  BY FcycInitially DEF Init
<1>2. FInv => KBest
  BY DEF FInv, KBest
<1> QED BY <1>1, <1>2, FInvStep, PTL DEF Spec

-----------------------------------------------------------------------------
(* A trace, request by request. *)

\* Max, of a set with a greatest element.
LEMMA MaxIs ==
  ASSUME NEW S \in SUBSET Int, NEW m \in S, \A y \in S : y =< m
  PROVE  Max(S) = m
<1>1. \A x \in S : (\A y \in S : x >= y) => x = m
  <2> SUFFICES ASSUME NEW x \in S, \A y \in S : x >= y PROVE x = m
    OBVIOUS
  <2>1. x >= m /\ x =< m
    OBVIOUS
  <2> QED BY <2>1
<1>2. \A y \in S : m >= y
  OBVIOUS
<1> QED BY <1>1, <1>2 DEF Max

\* The last request for an id, one request later.
LEMMA LastOpStep ==
  ASSUME NEW f, NEW x, NEW n \in Nat
  PROVE  /\ LastOp(f, n, x) \in 0..n
         /\ LastOp(f, 0, x) = 0
         /\ LastOp(f, n + 1, x) = IF f.ops[n + 1].index = x THEN n + 1 ELSE LastOp(f, n, x)
<1>1. LastOp(f, n, x) \in 0..n
  <2> DEFINE S == {0} \cup {q \in 1..n : f.ops[q].index = x}
  <2>1. S \in SUBSET (0..n) /\ S # {}
    OBVIOUS
  <2> HIDE DEF S
  <2>2. PICK m \in S : \A y \in S : y =< m
    BY <2>1, Greatest
  <2>3. Max(S) = m
    BY <2>1, <2>2, MaxIs
  <2>4. LastOp(f, n, x) = Max(S)
    BY DEF LastOp, S
  <2> QED BY <2>1, <2>3, <2>4
<1>2. LastOp(f, 0, x) = 0
  <2> DEFINE S == {0} \cup {q \in 1..0 : f.ops[q].index = x}
  <2>1. S = {0}
    OBVIOUS
  <2> HIDE DEF S
  <2>2. Max(S) = 0
    BY <2>1, MaxIs
  <2> QED BY <2>2 DEF LastOp, S
<1>3. LastOp(f, n + 1, x) = IF f.ops[n + 1].index = x THEN n + 1 ELSE LastOp(f, n, x)
  <2> DEFINE S == {0} \cup {q \in 1..n : f.ops[q].index = x}
             T == {0} \cup {q \in 1..(n + 1) : f.ops[q].index = x}
  <2>1. CASE f.ops[n + 1].index = x
    <3>1. T \in SUBSET Int /\ n + 1 \in T /\ \A y \in T : y =< n + 1
      BY <2>1
    <3> HIDE DEF T
    <3>2. Max(T) = n + 1
      BY <3>1, MaxIs
    <3> QED BY <2>1, <3>2 DEF LastOp, T
  <2>2. CASE f.ops[n + 1].index # x
    <3>1. \A q \in 1..(n + 1) : q \in 1..n \/ q = n + 1
      OBVIOUS
    <3>2. 1..n \subseteq 1..(n + 1)
      OBVIOUS
    <3>3. {q \in 1..n : f.ops[q].index = x} = {q \in 1..(n + 1) : f.ops[q].index = x}
      BY <2>2, <3>1, <3>2
    <3> QED BY <2>2, <3>3 DEF LastOp
  <2> QED BY <2>1, <2>2
<1> QED BY <1>1, <1>2, <1>3

\* What a request changes: the block of its own id.
LEMMA HoldsStep ==
  ASSUME NEW f, NEW x, NEW n \in Nat
  PROVE  /\ Holds(f, 0, x) = 0 /\ ~Freed(f, 0, x)
         /\ f.ops[n + 1].index # x =>
              Holds(f, n + 1, x) = Holds(f, n, x) /\ (Freed(f, n + 1, x) <=> Freed(f, n, x))
         /\ f.ops[n + 1].index = x =>
              /\ Freed(f, n + 1, x) <=> (f.ops[n + 1].type = "f")
              /\ Holds(f, n + 1, x) = IF f.ops[n + 1].type = "f" THEN 0 ELSE f.ops[n + 1].size
<1>1. LastOp(f, n, x) \in 0..n /\ LastOp(f, 0, x) = 0
      /\ LastOp(f, n + 1, x) = IF f.ops[n + 1].index = x THEN n + 1 ELSE LastOp(f, n, x)
  BY LastOpStep
<1>2. Holds(f, 0, x) = 0 /\ ~Freed(f, 0, x)
  BY <1>1 DEF Holds, Freed
<1>3. CASE f.ops[n + 1].index # x
  <2>1. LastOp(f, n + 1, x) = LastOp(f, n, x)
    BY <1>1, <1>3
  <2>2. (Freed(f, n + 1, x) <=> Freed(f, n, x))
    BY <2>1 DEF Freed
  <2>3. Holds(f, n + 1, x) = Holds(f, n, x)
    BY <2>1, <2>2 DEF Holds
  <2> QED BY <1>2, <1>3, <2>2, <2>3
<1>4. CASE f.ops[n + 1].index = x
  <2>1. LastOp(f, n + 1, x) = n + 1 /\ n + 1 # 0
    BY <1>1, <1>4
  <2>2. Freed(f, n + 1, x) <=> (f.ops[n + 1].type = "f")
    BY <2>1 DEF Freed
  <2>3. Holds(f, n + 1, x) = IF f.ops[n + 1].type = "f" THEN 0 ELSE f.ops[n + 1].size
    BY <2>1, <2>2 DEF Holds
  <2> QED BY <1>2, <1>4, <2>2, <2>3
<1> QED BY <1>3, <1>4

\* What read_trace lets pass.
LEMMA TraceIs ==
  ASSUME NEW f \in Trace, Readable(f)
  PROVE  /\ f.ids \in Nat /\ f.num_ops \in Nat /\ f.num_ops =< Len(f.ops) /\ Len(f.ops) \in Nat
         /\ \A n \in 1..f.num_ops : /\ f.ops[n].type \in {"a", "r", "f"}
                                    /\ f.ops[n].size \in Nat /\ f.ops[n].index \in Int
<1>1. f.ids \in Nat /\ f.num_ops \in Nat /\ f.ops \in Seq(Line)
  BY DEF Trace
<1>2. Len(f.ops) \in Nat /\ \A n \in 1..Len(f.ops) : f.ops[n] \in Line
  BY <1>1
<1>3. f.num_ops =< Len(f.ops)
  BY DEF Readable
<1>4. ASSUME NEW n \in 1..f.num_ops
      PROVE  f.ops[n].type \in {"a", "r", "f"} /\ f.ops[n].size \in Nat /\ f.ops[n].index \in Int
  <2>1. n \in 1..Len(f.ops)
    BY <1>1, <1>2, <1>3
  <2>2. f.ops[n] \in Line
    BY <1>2, <2>1
  <2> QED BY <2>2 DEF Line
<1> QED BY <1>1, <1>2, <1>3, <1>4

\* A trace holds a number of bytes under each id.
LEMMA HoldsIsNat ==
  ASSUME NEW f \in Trace, Readable(f), NEW n \in 0..f.num_ops, NEW x
  PROVE  Holds(f, n, x) \in Nat
<1>1. f.num_ops \in Nat /\ \A q \in 1..f.num_ops : f.ops[q].size \in Nat
  BY TraceIs
<1>2. n \in Nat
  BY <1>1
<1>3. LastOp(f, n, x) \in 0..n
  BY <1>2, LastOpStep
<1>4. LastOp(f, n, x) # 0 => LastOp(f, n, x) \in 1..f.num_ops
  BY <1>1, <1>2, <1>3
<1> QED BY <1>1, <1>4 DEF Holds

-----------------------------------------------------------------------------
(* The records of the blocks, and the range list. *)

\* The ids under which the trace f holds a block after n requests.
Held(f, n) == {x \in Ids(f) : Holds(f, n, x) > 0}

\* Addresses b, sizes z and bases d of a replay that has come to request n agree with the trace.
Recorded(f, n, b, z, d, x) ==
  /\ Holds(f, n, x) > 0 =>
       /\ z[x] = Holds(f, n, x) /\ b[x] \in Heap /\ b[x] + z[x] - 1 \in Heap /\ d[x] \in 1..n
  /\ ~(Holds(f, n, x) > 0) /\ ~Freed(f, n, x) => z[x] = 0 /\ b[x] = NULL
Tables(f, b, z, d) ==
  /\ b \in [Ids(f) -> Int \cup {NULL}] /\ z \in [Ids(f) -> Nat] /\ d \in [Ids(f) -> Nat]
Records(f, n, b, z, d) ==
  /\ Tables(f, b, z, d)
  /\ \A x \in Ids(f) : Recorded(f, n, b, z, d, x)
  /\ \A x, y \in Held(f, n) : d[x] = d[y] => x = y

\* Which ids hold a block, one request later.
LEMMA HeldStep ==
  ASSUME NEW f \in Trace, Readable(f), NEW n \in Nat, n + 1 =< f.num_ops
  PROVE  /\ Held(f, 0) = {}
         /\ f.ops[n + 1].type = "f" \/ f.ops[n + 1].size = 0 =>
              Held(f, n + 1) = Held(f, n) \ {f.ops[n + 1].index}
         /\ f.ops[n + 1].type # "f" /\ f.ops[n + 1].size > 0 /\ f.ops[n + 1].index \in Ids(f) =>
              Held(f, n + 1) = Held(f, n) \cup {f.ops[n + 1].index}
<1>1. \A x : /\ Holds(f, 0, x) = 0
             /\ f.ops[n + 1].index # x => Holds(f, n + 1, x) = Holds(f, n, x)
             /\ f.ops[n + 1].index = x =>
                  Holds(f, n + 1, x) = IF f.ops[n + 1].type = "f" THEN 0 ELSE f.ops[n + 1].size
  BY HoldsStep
<1>2. Held(f, 0) = {}
  BY <1>1 DEF Held
<1>3. PICK o : o = f.ops[n + 1]
  OBVIOUS
<1>4. o.size \in Nat
  BY <1>3, TraceIs
<1>5. ASSUME o.type = "f" \/ o.size = 0
      PROVE  Held(f, n + 1) = Held(f, n) \ {o.index}
  BY <1>1, <1>3, <1>5 DEF Held
<1>6. ASSUME o.type # "f", o.size > 0, o.index \in Ids(f)
      PROVE  Held(f, n + 1) = Held(f, n) \cup {o.index}
  BY <1>1, <1>3, <1>6 DEF Held
<1> QED BY <1>2, <1>3, <1>5, <1>6

\* reinit_trace: nothing is recorded of a trace that has not begun.
LEMMA RecordsStart ==
  ASSUME NEW f \in Trace, Readable(f), NEW b, NEW z, NEW d, Tables(f, b, z, d),
         b = [x \in Ids(f) |-> NULL], z = [x \in Ids(f) |-> 0]
  PROVE  Records(f, 0, b, z, d)
<1>1. \A x : Holds(f, 0, x) = 0
  BY HoldsStep
<1> QED BY <1>1 DEF Records, Recorded, Held

\* A block is given out or moved.
LEMMA RecordsSet ==
  ASSUME NEW f \in Trace, Readable(f), NEW n \in Nat, n + 1 =< f.num_ops,
         NEW b, NEW z, NEW d, Records(f, n, b, z, d),
         NEW x \in Ids(f), f.ops[n + 1].index = x, f.ops[n + 1].type # "f",
         NEW s \in Nat, f.ops[n + 1].size = s, s > 0,
         NEW lo \in Int, Inside(lo, lo + s - 1)
  PROVE  Records(f, n + 1, [b EXCEPT ![x] = lo], [z EXCEPT ![x] = s], [d EXCEPT ![x] = n + 1])
<1> DEFINE b2 == [b EXCEPT ![x] = lo]  z2 == [z EXCEPT ![x] = s]  d2 == [d EXCEPT ![x] = n + 1]
<1>0. Tables(f, b, z, d)
  BY DEF Records
<1>1. Tables(f, b2, z2, d2)
  BY <1>0 DEF Tables
<1>2. b2[x] = lo /\ z2[x] = s /\ d2[x] = n + 1
      /\ \A y \in Ids(f) \ {x} : b2[y] = b[y] /\ z2[y] = z[y] /\ d2[y] = d[y]
  BY <1>0 DEF Tables
<1> HIDE DEF b2, z2, d2
<1>3. \A y : /\ x # y => Holds(f, n + 1, y) = Holds(f, n, y) /\ (Freed(f, n + 1, y) <=> Freed(f, n, y))
             /\ x = y => Holds(f, n + 1, y) = s
  BY HoldsStep
<1>4. ASSUME NEW y \in Ids(f) PROVE Recorded(f, n + 1, b2, z2, d2, y)
  <2>1. CASE y = x
    BY <1>2, <1>3, <2>1 DEF Recorded, Inside
  <2>2. CASE y # x
    <3>1. Recorded(f, n, b, z, d, y)
      BY DEF Records
    <3>2. b2[y] = b[y] /\ z2[y] = z[y] /\ d2[y] = d[y]
      BY <1>2, <2>2
    <3>3. Holds(f, n + 1, y) = Holds(f, n, y) /\ (Freed(f, n + 1, y) <=> Freed(f, n, y))
      BY <1>3, <2>2
    <3> QED BY <3>1, <3>2, <3>3 DEF Recorded
  <2> QED BY <2>1, <2>2
<1>5. ASSUME NEW y \in Held(f, n + 1), NEW w \in Held(f, n + 1), d2[y] = d2[w] PROVE y = w
  <2>1. \A q \in Held(f, n + 1) \ {x} : q \in Held(f, n) /\ d2[q] = d[q] /\ d[q] \in 1..n
    BY <1>2, <1>3 DEF Held, Records, Recorded
  <2>2. CASE y = x \/ w = x
    <3>1. d2[y] = n + 1 \/ d2[w] = n + 1
      BY <1>2, <2>2
    <3> QED BY <1>5, <2>1, <3>1
  <2>3. CASE y # x /\ w # x
    BY <1>5, <2>1, <2>3 DEF Records
  <2> QED BY <2>2, <2>3
<1> QED BY <1>1, <1>4, <1>5 DEF Records, b2, z2, d2

\* realloc to nothing.
LEMMA RecordsGone ==
  ASSUME NEW f \in Trace, Readable(f), NEW n \in Nat, n + 1 =< f.num_ops,
         NEW b, NEW z, NEW d, Records(f, n, b, z, d),
         NEW x \in Ids(f), f.ops[n + 1].index = x, f.ops[n + 1].type # "f", f.ops[n + 1].size = 0
  PROVE  Records(f, n + 1, [b EXCEPT ![x] = NULL], [z EXCEPT ![x] = 0], [d EXCEPT ![x] = n + 1])
<1> DEFINE b2 == [b EXCEPT ![x] = NULL]  z2 == [z EXCEPT ![x] = 0]  d2 == [d EXCEPT ![x] = n + 1]
<1>0. Tables(f, b, z, d)
  BY DEF Records
<1>1. Tables(f, b2, z2, d2)
  BY <1>0 DEF Tables
<1>2. b2[x] = NULL /\ z2[x] = 0 /\ d2[x] = n + 1
      /\ \A y \in Ids(f) \ {x} : b2[y] = b[y] /\ z2[y] = z[y] /\ d2[y] = d[y]
  BY <1>0 DEF Tables
<1> HIDE DEF b2, z2, d2
<1>3. \A y : /\ x # y => Holds(f, n + 1, y) = Holds(f, n, y) /\ (Freed(f, n + 1, y) <=> Freed(f, n, y))
             /\ x = y => Holds(f, n + 1, y) = 0
  BY HoldsStep
<1>4. ASSUME NEW y \in Ids(f) PROVE Recorded(f, n + 1, b2, z2, d2, y)
  <2>1. CASE y = x
    BY <1>2, <1>3, <2>1 DEF Recorded
  <2>2. CASE y # x
    <3>1. Recorded(f, n, b, z, d, y)
      BY DEF Records
    <3>2. b2[y] = b[y] /\ z2[y] = z[y] /\ d2[y] = d[y]
      BY <1>2, <2>2
    <3>3. Holds(f, n + 1, y) = Holds(f, n, y) /\ (Freed(f, n + 1, y) <=> Freed(f, n, y))
      BY <1>3, <2>2
    <3> QED BY <3>1, <3>2, <3>3 DEF Recorded
  <2> QED BY <2>1, <2>2
<1>5. \A q \in Held(f, n + 1) : q \in Held(f, n) /\ d2[q] = d[q]
  BY <1>2, <1>3 DEF Held
<1> QED BY <1>1, <1>4, <1>5 DEF Records, b2, z2, d2

\* free, of a block or of NULL.
LEMMA RecordsFree ==
  ASSUME NEW f \in Trace, Readable(f), NEW n \in Nat, n + 1 =< f.num_ops,
         NEW b, NEW z, NEW d, Records(f, n, b, z, d), f.ops[n + 1].type = "f"
  PROVE  Records(f, n + 1, b, z, d)
<1>3. \A y : /\ f.ops[n + 1].index # y => Holds(f, n + 1, y) = Holds(f, n, y) /\ (Freed(f, n + 1, y) <=> Freed(f, n, y))
             /\ f.ops[n + 1].index = y => Holds(f, n + 1, y) = 0 /\ Freed(f, n + 1, y)
  BY HoldsStep
<1>4. ASSUME NEW y \in Ids(f) PROVE Recorded(f, n + 1, b, z, d, y)
  <2>1. CASE y = f.ops[n + 1].index
    BY <1>3, <2>1 DEF Recorded
  <2>2. CASE y # f.ops[n + 1].index
    <3>1. Recorded(f, n, b, z, d, y)
      BY DEF Records
    <3>3. Holds(f, n + 1, y) = Holds(f, n, y) /\ (Freed(f, n + 1, y) <=> Freed(f, n, y))
      BY <1>3, <2>2
    <3> QED BY <3>1, <3>3 DEF Recorded
  <2> QED BY <2>1, <2>2
<1>5. \A q \in Held(f, n + 1) : q \in Held(f, n)
  BY <1>3 DEF Held
<1> QED BY <1>4, <1>5 DEF Records

\* Two records u, v, u the newer.
Apart(u, v) == u.hi < v.lo \/ v.hi < u.lo \/ (u.lo < v.lo /\ v.hi < u.hi)
Entry(b, z, u, x) == u.index = x /\ u.lo = b[x] /\ u.hi = b[x] + z[x] - 1

\* The list rs records the blocks H at b, with the sizes z.
Lists(H, b, z, rs) ==
  /\ rs \in Seq(Record)
  /\ \A p \in 1..Len(rs) : \E x \in H : Entry(b, z, rs[p], x)
  /\ \A x \in H : \E p \in 1..Len(rs) : rs[p].index = x
  /\ \A p, q \in 1..Len(rs) : p < q => rs[p].index # rs[q].index /\ Apart(rs[p], rs[q])

\* The records of a list.
LEMMA SeqIs ==
  ASSUME NEW rs \in Seq(Record)
  PROVE  /\ Len(rs) \in Nat /\ DOMAIN rs = 1..Len(rs)
         /\ \A p \in 1..Len(rs) : rs[p] \in Record /\ rs[p].lo \in Int /\ rs[p].hi \in Int
<1>1. Len(rs) \in Nat /\ DOMAIN rs = 1..Len(rs) /\ \A p \in 1..Len(rs) : rs[p] \in Record
  OBVIOUS
<1>2. \A u \in Record : u.lo \in Int /\ u.hi \in Int
  BY DEF Record
<1> QED BY <1>1, <1>2

\* remove_range takes out the record of the block, and no other: no two start at one address.
LEMMA ListRemove ==
  ASSUME NEW H, NEW b, NEW z, NEW rs, Lists(H, b, z, rs),
         \A y \in H : b[y] \in Int /\ z[y] \in Nat /\ z[y] > 0,
         NEW x \in H
  PROVE  Lists(H \ {x}, b, z, remove_range(rs, b[x]))
<1>0. rs \in Seq(Record) /\ Len(rs) \in Nat /\ DOMAIN rs = 1..Len(rs)
  BY SeqIs DEF Lists
<1>1. PICK w \in 1..Len(rs) : rs[w].index = x
  BY DEF Lists
<1>2. ASSUME NEW p \in 1..Len(rs), rs[p].lo = b[x] PROVE p = w
  <2>1. PICK y \in H : Entry(b, z, rs[p], y)
    BY DEF Lists
  <2>2. PICK v \in H : Entry(b, z, rs[w], v)
    BY DEF Lists
  <2>3. v = x
    BY <1>1, <2>2 DEF Entry
  <2>4. PICK A \in Int, B \in Int, C \in Int :
          rs[w].lo = A /\ rs[w].hi = B /\ rs[p].lo = A /\ rs[p].hi = C /\ A =< B /\ A =< C
    <3>1. PICK A \in Int, m \in Nat \ {0}, n \in Nat \ {0} : A = b[x] /\ b[y] = A /\ m = z[x] /\ n = z[y]
      <4>1. b[y] = b[x]
        BY <1>2, <2>1 DEF Entry
      <4>2. b[x] \in Int /\ z[x] \in Nat \ {0} /\ z[y] \in Nat \ {0}
        OBVIOUS
      <4> QED BY <4>1, <4>2
    <3>2. A + m - 1 \in Int /\ A + n - 1 \in Int /\ A =< A + m - 1 /\ A =< A + n - 1
      OBVIOUS
    <3> QED BY <1>2, <2>1, <2>2, <2>3, <3>1, <3>2 DEF Entry
  <2>5. ~ Apart(rs[w], rs[p]) /\ ~ Apart(rs[p], rs[w])
    BY <2>4 DEF Apart
  <2>6. ~(w < p) /\ ~(p < w)
    BY <2>5 DEF Lists
  <2> QED BY <1>0, <2>6
<1>3. rs[w].lo = b[x]
  BY <1>1 DEF Lists, Entry
<1> DEFINE at == {n \in DOMAIN rs : rs[n].lo = b[x]}
<1>4. at = {w}
  BY <1>0, <1>2, <1>3
<1>5. remove_range(rs, b[x]) = RemoveAt(rs, w)
  <2>1. (CHOOSE n \in at : \A q \in at : n =< q) = w
    <3> HIDE DEF at
    <3>1. \A n \in at : n = w
      BY <1>4
    <3>2. w \in at /\ \A q \in at : w =< q
      BY <1>0, <1>4
    <3> QED BY <3>1, <3>2
  <2>2. remove_range(rs, b[x]) = IF at = {} THEN rs ELSE RemoveAt(rs, CHOOSE n \in at : \A q \in at : n =< q)
    BY Zenon DEF remove_range
  <2> HIDE DEF at
  <2> QED BY <1>4, <2>1, <2>2
<1> HIDE DEF at
<1>6. PICK t : t = remove_range(rs, b[x])
  OBVIOUS
<1>7. /\ t \in Seq(Record) /\ Len(t) = Len(rs) - 1
      /\ \A p \in 1..(Len(rs) - 1) : t[p] = IF p < w THEN rs[p] ELSE rs[p + 1]
  <2>1. RemovedIs(rs, w, RemoveAt(rs, w))
    BY <1>0, RemoveAtIs
  <2>2. RemoveAt(rs, w) = t
    BY <1>5, <1>6
  <2> QED BY <2>1, <2>2 DEF RemovedIs
<1>8. PICK L \in Nat : L = Len(rs)
  BY <1>0
<1>9. \A p \in 1..(L - 1) : \E o \in 1..L : /\ o # w /\ t[p] = rs[o]
                                            /\ o = IF p < w THEN p ELSE p + 1
  <2> SUFFICES ASSUME NEW p \in 1..(L - 1)
               PROVE  \E o \in 1..L : o # w /\ t[p] = rs[o] /\ o = IF p < w THEN p ELSE p + 1
    OBVIOUS
  <2>1. CASE p < w
    <3>1. p \in 1..L /\ p # w /\ t[p] = rs[p]
      BY <1>7, <1>8, <2>1
    <3> QED BY <2>1, <3>1
  <2>2. CASE ~(p < w)
    <3>1. p + 1 \in 1..L /\ p + 1 # w /\ t[p] = rs[p + 1]
      BY <1>7, <1>8, <2>2
    <3> QED BY <2>2, <3>1
  <2> QED BY <2>1, <2>2
<1>10. ASSUME NEW p \in 1..(L - 1) PROVE \E y \in H \ {x} : Entry(b, z, t[p], y)
  <2>1. PICK o \in 1..L : o # w /\ t[p] = rs[o]
    BY <1>9
  <2>2. PICK y \in H : Entry(b, z, rs[o], y)
    BY <1>8 DEF Lists
  <2>3. rs[o].index # rs[w].index
    <3>1. o < w \/ w < o
      BY <1>8, <2>1
    <3> QED BY <1>8, <3>1 DEF Lists
  <2> QED BY <1>1, <2>1, <2>2, <2>3 DEF Entry
<1>11. ASSUME NEW y \in H \ {x} PROVE \E p \in 1..(L - 1) : t[p].index = y
  <2>1. PICK o \in 1..L : rs[o].index = y
    BY <1>8 DEF Lists
  <2>2. o # w
    BY <1>1, <2>1
  <2>3. CASE o < w
    <3>1. o \in 1..(L - 1) /\ t[o] = rs[o]
      BY <1>7, <1>8, <2>3
    <3> QED BY <2>1, <3>1
  <2>4. CASE o > w
    <3>1. o - 1 \in 1..(L - 1) /\ ~(o - 1 < w) /\ o - 1 + 1 = o
      BY <1>8, <2>4
    <3>2. t[o - 1] = rs[o - 1 + 1]
      BY <1>7, <1>8, <3>1
    <3> QED BY <2>1, <3>1, <3>2
  <2> QED BY <1>8, <2>2, <2>3, <2>4
<1>12. ASSUME NEW p \in 1..(L - 1), NEW q \in 1..(L - 1), p < q
       PROVE  t[p].index # t[q].index /\ Apart(t[p], t[q])
  <2>1. PICK o \in 1..L : o # w /\ t[p] = rs[o] /\ o = IF p < w THEN p ELSE p + 1
    BY <1>9
  <2>2. PICK v \in 1..L : v # w /\ t[q] = rs[v] /\ v = IF q < w THEN q ELSE q + 1
    BY <1>9
  <2>3. o < v
    <3>1. p \in Int /\ q \in Int /\ w \in Int
      BY <1>8
    <3>2. (p < w => o = p) /\ (~(p < w) => o = p + 1) /\ (q < w => v = q) /\ (~(q < w) => v = q + 1)
      BY <2>1, <2>2
    <3> QED BY <1>12, <3>1, <3>2
  <2>4. \A m, n \in 1..L : m < n => rs[m].index # rs[n].index /\ Apart(rs[m], rs[n])
    BY <1>8 DEF Lists
  <2>5. rs[o].index # rs[v].index /\ Apart(rs[o], rs[v])
    BY <2>3, <2>4
  <2>6. t[p] = rs[o] /\ t[q] = rs[v]
    BY <2>1, <2>2
  <2> QED BY <2>5, <2>6
<1>13. Len(t) = L - 1 /\ t \in Seq(Record)
  BY <1>7, <1>8
<1>14. Lists(H \ {x}, b, z, t)
  BY <1>10, <1>11, <1>12, <1>13 DEF Lists
<1> QED BY <1>6, <1>14

\* Nothing is recorded for NULL.
LEMMA ListRemoveNull ==
  ASSUME NEW H, NEW b, NEW z, NEW rs, Lists(H, b, z, rs)
  PROVE  remove_range(rs, NULL) = rs
<1>1. \A p \in 1..Len(rs) : rs[p].lo \in Int
  BY SeqIs DEF Lists
<1>2. DOMAIN rs = 1..Len(rs)
  BY SeqIs DEF Lists
<1> DEFINE at == {n \in DOMAIN rs : rs[n].lo = NULL}
<1>3. at = {}
  BY <1>1, <1>2, DriverAssumption
<1>4. remove_range(rs, NULL) = IF at = {} THEN rs ELSE RemoveAt(rs, CHOOSE n \in at : \A q \in at : n =< q)
  BY Zenon DEF remove_range
<1> HIDE DEF at
<1> QED BY <1>3, <1>4

\* The tables may change for a block that is not in the list.
LEMMA ListOthers ==
  ASSUME NEW H, NEW b, NEW z, NEW b2, NEW z2, NEW rs, Lists(H, b, z, rs),
         \A y \in H : b2[y] = b[y] /\ z2[y] = z[y]
  PROVE  Lists(H, b2, z2, rs)
<1>1. \A p \in 1..Len(rs) : \E x \in H : Entry(b2, z2, rs[p], x)
  BY DEF Lists, Entry
<1> QED BY <1>1 DEF Lists

\* t is rs with u in front.
ConsIs(u, rs, t) ==
  /\ t \in Seq(Record) /\ Len(t) = Len(rs) + 1 /\ t[1] = u
  /\ \A p \in 1..Len(rs) : t[p + 1] = rs[p]

\* A record in front of the others.
LEMMA InFront ==
  ASSUME NEW u \in Record, NEW rs \in Seq(Record)
  PROVE  ConsIs(u, rs, <<u>> \o rs)
<1>1. <<u>> \o rs \in Seq(Record) /\ Len(<<u>> \o rs) = Len(rs) + 1 /\ (<<u>> \o rs)[1] = u
  OBVIOUS
<1>2. \A p \in 1..Len(rs) : (<<u>> \o rs)[p + 1] = rs[p]
  OBVIOUS
<1> QED BY <1>1, <1>2 DEF ConsIs

\* add_range's new record, apart from those there are.
LEMMA ListAdd ==
  ASSUME NEW H, NEW b, NEW z, NEW rs, Lists(H, b, z, rs),
         NEW x, x \notin H, NEW u \in Record, Entry(b, z, u, x),
         \A p \in 1..Len(rs) : Apart(u, rs[p])
  PROVE  Lists(H \cup {x}, b, z, <<u>> \o rs)
<1>0. rs \in Seq(Record)
  BY DEF Lists
<1>1. PICK t : t = <<u>> \o rs
  OBVIOUS
<1>2. PICK L \in Nat : L = Len(rs)
  BY <1>0
<1>3. /\ t \in Seq(Record) /\ Len(t) = L + 1 /\ t[1] = u
      /\ \A p \in 1..L : t[p + 1] = rs[p]
  BY <1>0, <1>1, <1>2, InFront DEF ConsIs
<1>4. \A p \in 1..(L + 1) : p = 1 \/ (p - 1 \in 1..L /\ t[p] = rs[p - 1])
  <2> SUFFICES ASSUME NEW p \in 1..(L + 1), p # 1 PROVE p - 1 \in 1..L /\ t[p] = rs[p - 1]
    OBVIOUS
  <2>1. p - 1 \in 1..L /\ p - 1 + 1 = p
    OBVIOUS
  <2> QED BY <1>3, <2>1
<1>5. ASSUME NEW p \in 1..(L + 1) PROVE \E y \in H \cup {x} : Entry(b, z, t[p], y)
  <2>1. CASE p = 1
    BY <1>3, <2>1
  <2>2. CASE p # 1
    BY <1>2, <1>4, <2>2 DEF Lists
  <2> QED BY <2>1, <2>2
<1>6. ASSUME NEW y \in H \cup {x} PROVE \E p \in 1..(L + 1) : t[p].index = y
  <2>1. CASE y = x
    <3>1. 1 \in 1..(L + 1)
      OBVIOUS
    <3> QED BY <1>3, <2>1, <3>1 DEF Entry
  <2>2. CASE y \in H
    <3>1. PICK p \in 1..L : rs[p].index = y
      BY <1>2, <2>2 DEF Lists
    <3>2. p + 1 \in 1..(L + 1)
      OBVIOUS
    <3> QED BY <1>3, <3>1, <3>2
  <2> QED BY <2>1, <2>2
<1>7. ASSUME NEW p \in 1..(L + 1), NEW q \in 1..(L + 1), p < q
      PROVE  t[p].index # t[q].index /\ Apart(t[p], t[q])
  <2>1. q - 1 \in 1..L /\ t[q] = rs[q - 1]
    BY <1>4, <1>7
  <2>2. CASE p = 1
    <3>1. PICK y \in H : Entry(b, z, rs[q - 1], y)
      BY <1>2, <2>1 DEF Lists
    <3> QED BY <1>2, <1>3, <2>1, <2>2, <3>1 DEF Entry
  <2>3. CASE p # 1
    <3>1. p - 1 \in 1..L /\ t[p] = rs[p - 1] /\ p - 1 < q - 1
      BY <1>4, <1>7, <2>3
    <3> QED BY <1>2, <2>1, <3>1 DEF Lists
  <2> QED BY <2>2, <2>3
<1> QED BY <1>1, <1>3, <1>5, <1>6, <1>7 DEF Lists

\* A list has one record for each block.
LEMMA ListCardinality ==
  ASSUME NEW H, NEW b, NEW z, NEW rs, Lists(H, b, z, rs)
  PROVE  /\ {rs[p].index : p \in DOMAIN rs} = H
         /\ IsFiniteSet(H) /\ Cardinality(H) = Len(rs)
<1>0. PICK L \in Nat : L = Len(rs) /\ DOMAIN rs = 1..L
  BY SeqIs DEF Lists
<1>1. {rs[p].index : p \in DOMAIN rs} = H
  <2>1. \A p \in 1..L : rs[p].index \in H
    BY <1>0 DEF Lists, Entry
  <2>2. \A x \in H : \E p \in 1..L : rs[p].index = x
    BY <1>0 DEF Lists
  <2> QED BY <1>0, <2>1, <2>2
<1>2. PICK g : g = [p \in 1..L |-> rs[p].index]
  OBVIOUS
<1>3. g \in [1..L -> H] /\ \A x \in H : \E p \in 1..L : g[p] = x
  BY <1>0, <1>1, <1>2
<1>4. \A p, q \in 1..L : g[p] = g[q] => p = q
  <2> SUFFICES ASSUME NEW p \in 1..L, NEW q \in 1..L, g[p] = g[q], p # q PROVE FALSE
    OBVIOUS
  <2>1. p < q \/ q < p
    OBVIOUS
  <2>2. rs[p].index # rs[q].index
    BY <1>0, <2>1 DEF Lists
  <2> QED BY <1>2, <2>2
<1>5. IsFiniteSet(1..L) /\ Cardinality(1..L) = L
  <2>1. IsFiniteSet(1..L) /\ Cardinality(1..L) = IF 1 > L THEN 0 ELSE L - 1 + 1
    BY FS_Interval
  <2> QED BY <2>1
<1>6. g \in Surjection(1..L, H)
  BY <1>3 DEF Surjection
<1>7. g \in Injection(1..L, H)
  BY <1>3, <1>4 DEF Injection, IsInjective
<1>8. IsFiniteSet(H) /\ (Cardinality(H) = Cardinality(1..L) <=> g \in Injection(1..L, H))
  BY <1>5, <1>6, FS_Surjection
<1> QED BY <1>0, <1>1, <1>5, <1>7, <1>8

-----------------------------------------------------------------------------
(* The bytes that a trace holds. *)

\* The bytes of the block under id x.
Own(f, n, x) == {x} \X (1..Holds(f, n, x))

\* The bytes of one block.
LEMMA OwnIs ==
  ASSUME NEW x, NEW h \in Nat
  PROVE  IsFiniteSet({x} \X (1..h)) /\ Cardinality({x} \X (1..h)) = h
<1>1. IsFiniteSet(1..h) /\ Cardinality(1..h) = h
  <2>1. IsFiniteSet(1..h) /\ Cardinality(1..h) = IF 1 > h THEN 0 ELSE h - 1 + 1
    BY FS_Interval
  <2> QED BY <2>1
<1>2. IsFiniteSet({x}) /\ Cardinality({x}) = 1
  BY FS_Singleton
<1>3. IsFiniteSet({x} \X (1..h)) /\ Cardinality({x} \X (1..h)) = Cardinality({x}) * Cardinality(1..h)
  BY <1>1, <1>2, FS_Product
<1> QED BY <1>1, <1>2, <1>3

\* Two sets without a common element.
LEMMA Apartness ==
  ASSUME NEW A, IsFiniteSet(A), NEW B, IsFiniteSet(B), A \cap B = {}
  PROVE  IsFiniteSet(A \cup B) /\ Cardinality(A \cup B) = Cardinality(A) + Cardinality(B)
<1>1. Cardinality(A \cap B) = 0
  BY FS_EmptySet
<1>2. Cardinality(A) \in Nat /\ Cardinality(B) \in Nat
  BY FS_CardinalityType
<1>3. IsFiniteSet(A \cup B) /\ Cardinality(A \cup B) = Cardinality(A) + Cardinality(B) - Cardinality(A \cap B)
  BY FS_Union
<1> QED BY <1>1, <1>2, <1>3

\* A trace begins with no bytes.
LEMMA BytesStart ==
  ASSUME NEW f
  PROVE  IsFiniteSet(Bytes(f, 0)) /\ Cardinality(Bytes(f, 0)) = 0
<1>1. \A x : Holds(f, 0, x) = 0
  BY HoldsStep
<1>2. Bytes(f, 0) = {}
  <2>1. \A x : {x} \X (1..Holds(f, 0, x)) = {}
    BY <1>1
  <2> QED BY <2>1 DEF Bytes
<1> QED BY <1>2, FS_EmptySet

\* A request changes them by the size of its own block.
LEMMA BytesStep ==
  ASSUME NEW f \in Trace, Readable(f), NEW n \in Nat, n + 1 =< f.num_ops,
         IsFiniteSet(Bytes(f, n)), NEW x, f.ops[n + 1].index = x
  PROVE  /\ IsFiniteSet(Bytes(f, n + 1))
         /\ x \notin Ids(f) => Cardinality(Bytes(f, n + 1)) = Cardinality(Bytes(f, n))
         /\ x \in Ids(f) => Cardinality(Bytes(f, n + 1))
                              = Cardinality(Bytes(f, n)) - Holds(f, n, x) + Holds(f, n + 1, x)
<1>1. \A y : y # x => Holds(f, n + 1, y) = Holds(f, n, y)
  BY HoldsStep
<1>2. \A y : y # x => Own(f, n + 1, y) = Own(f, n, y)
  BY <1>1 DEF Own
<1>3. \A m : Bytes(f, m) = UNION {Own(f, m, y) : y \in Ids(f)}
  BY DEF Bytes, Own
<1>4. CASE x \notin Ids(f)
  <2>1. {Own(f, n + 1, y) : y \in Ids(f)} = {Own(f, n, y) : y \in Ids(f)}
    BY <1>2, <1>4
  <2> QED BY <1>3, <1>4, <2>1
<1>5. CASE x \in Ids(f)
  <2> DEFINE R == UNION {Own(f, n, y) : y \in Ids(f) \ {x}}
  <2>1. R = UNION {Own(f, n + 1, y) : y \in Ids(f) \ {x}}
    <3>1. {Own(f, n + 1, y) : y \in Ids(f) \ {x}} = {Own(f, n, y) : y \in Ids(f) \ {x}}
      BY <1>2
    <3> QED BY <3>1
  <2>2. Bytes(f, n) = R \cup Own(f, n, x)
    <3>1. Bytes(f, n) = UNION {Own(f, n, y) : y \in Ids(f)}
      BY <1>3
    <3> QED BY <1>5, <3>1
  <2>3. Bytes(f, n + 1) = R \cup Own(f, n + 1, x)
    <3>1. Bytes(f, n + 1) = UNION {Own(f, n + 1, y) : y \in Ids(f)}
      BY <1>3
    <3> HIDE DEF R
    <3> QED BY <1>5, <2>1, <3>1
  <2>4. \A w \in R : \E y \in Ids(f) : y # x /\ w \in {y} \X (1..Holds(f, n, y))
    BY DEF Own
  <2>5. \A w \in R : w[1] # x
    <3> HIDE DEF R
    <3> QED BY <2>4
  <2> HIDE DEF R
  <2>6. \A m : R \cap Own(f, m, x) = {}
    BY <2>5 DEF Own
  <2>7. IsFiniteSet(R)
    BY <2>2, FS_Subset
  <2>8. PICK h \in Nat, g \in Nat : h = Holds(f, n, x) /\ g = Holds(f, n + 1, x)
    <3>1. n \in 0..f.num_ops /\ n + 1 \in 0..f.num_ops
      BY TraceIs
    <3> QED BY <3>1, HoldsIsNat
  <2>9. IsFiniteSet(Own(f, n, x)) /\ Cardinality(Own(f, n, x)) = h
    BY <2>8, OwnIs DEF Own
  <2>10. IsFiniteSet(Own(f, n + 1, x)) /\ Cardinality(Own(f, n + 1, x)) = g
    BY <2>8, OwnIs DEF Own
  <2>11. Cardinality(Bytes(f, n)) = Cardinality(R) + h
    BY <2>2, <2>6, <2>7, <2>9, Apartness
  <2>12. IsFiniteSet(Bytes(f, n + 1)) /\ Cardinality(Bytes(f, n + 1)) = Cardinality(R) + g
    <3>1. PICK O : O = Own(f, n + 1, x)
      OBVIOUS
    <3>2. IsFiniteSet(O) /\ Cardinality(O) = g /\ R \cap O = {} /\ Bytes(f, n + 1) = R \cup O
      BY <2>3, <2>6, <2>10, <3>1
    <3>3. IsFiniteSet(R \cup O) /\ Cardinality(R \cup O) = Cardinality(R) + Cardinality(O)
      BY <2>7, <3>2, Apartness
    <3> QED BY <3>2, <3>3
  <2>13. Cardinality(R) \in Nat
    BY <2>7, FS_CardinalityType
  <2>14. PICK r \in Nat : r = Cardinality(R)
    BY <2>13
  <2>15. Cardinality(Bytes(f, n)) = r + h /\ Cardinality(Bytes(f, n + 1)) = r + g
    BY <2>11, <2>12, <2>14
  <2>16. r + g = (r + h) - h + g
    OBVIOUS
  <2>17. Cardinality(Bytes(f, n + 1)) = Cardinality(Bytes(f, n)) - Holds(f, n, x) + Holds(f, n + 1, x)
    BY <2>8, <2>15, <2>16
  <2> QED BY <1>5, <2>12, <2>17
<1> QED BY <1>4, <1>5

\* The greatest of the totals is the high-water mark.
LEMMA HighWaterIs ==
  ASSUME NEW f \in Trace, Readable(f), NEW m \in Nat,
         \A n \in 0..f.num_ops : Cardinality(Bytes(f, n)) \in Nat /\ Cardinality(Bytes(f, n)) =< m,
         \E n \in 0..f.num_ops : Cardinality(Bytes(f, n)) = m
  PROVE  HighWater(f) = m
<1> DEFINE S == {Cardinality(Bytes(f, n)) : n \in 0..f.num_ops}
<1>1. S \in SUBSET Int /\ m \in S /\ \A y \in S : y =< m
  OBVIOUS
<1> HIDE DEF S
<1>2. Max(S) = m
  BY <1>1, MaxIs
<1> QED BY <1>2 DEF HighWater, S

-----------------------------------------------------------------------------
(* The phases of the driver. *)

\* What TypeOK says of the phases, and which table belongs to which.
Points == {"read", "valid", "check", "util", "speed", "free", "report", "hang", "exit", "undefined"}
Stat == [valid : BOOLEAN, util : Nat, secs : Int]
Running == pc \in {"valid", "check", "util", "speed"}

TInv ==
  /\ opt \in Options /\ files \in Suites /\ i \in DOMAIN files /\ k \in 1 .. Len(trace.ops) + 1
  /\ pc \in Points /\ mode \in {"libc", "mm"}
  /\ stats \in [DOMAIN files -> Stat]
  /\ timed_out \in BOOLEAN /\ faulty \in BOOLEAN
  /\ pc \in {"read", "valid"} => k = 1
  /\ Running => /\ Readable(trace) /\ k =< trace.num_ops + 1
                /\ Tables(trace, blocks, block_sizes, block_rand_base)
  /\ pc \in {"check", "util"} => mode = "mm"
  /\ pc = "util" => total_size \in Int /\ max_total_size \in Nat

\* The trace files of a suite.
LEMMA FilesAre ==
  ASSUME NEW s \in Suites, NEW t \in DOMAIN s
  PROVE  /\ s[t] \in Trace /\ (Readable(s[t]) => Consistent(s[t]))
         /\ DOMAIN s = 1..Len(s) /\ Len(s) \in Nat /\ Len(s[t].ops) \in Nat
<1>1. s \in Seq(Trace)
  BY DriverAssumption
<1>2. DOMAIN s = 1..Len(s) /\ Len(s) \in Nat /\ s[t] \in Trace
  BY <1>1
<1>3. s[t].ops \in Seq(Line)
  BY <1>2 DEF Trace
<1>4. Len(s[t].ops) \in Nat
  BY <1>3
<1> QED BY <1>2, <1>4, TracesAssumption

\* The one that the driver works on.
LEMMA TraceHere ==
  ASSUME TInv
  PROVE  /\ trace \in Trace /\ Len(trace.ops) \in Nat /\ k \in Nat \ {0}
         /\ Running => Readable(trace) /\ Consistent(trace)
<1>1. trace \in Trace /\ (Readable(trace) => Consistent(trace)) /\ Len(trace.ops) \in Nat
  BY FilesAre DEF TInv, trace
<1> QED BY <1>1 DEF TInv

\* What the trace says of the request that is next.
LEMMA OpHere ==
  ASSUME TInv, pc \in {"check", "util"}, k =< trace.num_ops
  PROVE  /\ op.type \in {"a", "r", "f"} /\ op.size \in Nat /\ op.index \in Int
         /\ op.index \in Ids(trace) \/ (op.type = "f" /\ op.index = -1)
         /\ op.type = "a" => Holds(trace, k - 1, op.index) = 0
         /\ op.type # "a" => ~Freed(trace, k - 1, op.index)
<1>1. PICK f \in Trace : f = trace /\ Readable(f) /\ Consistent(f)
  BY TraceHere DEF Running
<1>2. PICK n \in 1..f.num_ops : n = k
  BY <1>1, TraceIs, TraceHere
<1>3. f.ops[n].type \in {"a", "r", "f"} /\ f.ops[n].size \in Nat /\ f.ops[n].index \in Int
  BY <1>1, TraceIs
<1>4. /\ f.ops[n].index \in Ids(f) \/ (f.ops[n].type = "f" /\ f.ops[n].index = -1)
      /\ f.ops[n].type = "a" => Holds(f, n - 1, f.ops[n].index) = 0
      /\ f.ops[n].type # "a" => ~Freed(f, n - 1, f.ops[n].index)
  BY <1>1 DEF Consistent
<1> QED BY <1>1, <1>2, <1>3, <1>4 DEF op

\* The driver begins with the first trace.
LEMMA TStart == Init => TInv
<1> SUFFICES ASSUME Init PROVE TInv
  OBVIOUS
<1>1. files \in Suites /\ files # <<>> /\ files \in Seq(Trace)
  BY DriverAssumption DEF Init
<1>2. i \in DOMAIN files
  BY <1>1 DEF Init
<1>3. Len(trace.ops) \in Nat
  BY <1>1, <1>2, FilesAre DEF trace
<1>4. stats \in [DOMAIN files -> Stat]
  BY DEF Init, Stat
<1>5. ~Running /\ pc = "read" /\ k = 1
  BY DEF Init, Running
<1>6. k \in 1 .. Len(trace.ops) + 1
  BY <1>3, <1>5
<1>7. opt \in Options /\ mode \in {"libc", "mm"} /\ timed_out = FALSE /\ faulty = FALSE
  BY DEF Init
<1> QED BY <1>1, <1>2, <1>4, <1>5, <1>6, <1>7 DEF TInv, Points

\* Everything that TInv is about, but for the phase, stays.
Frame == UNCHANGED <<opt, files, mode, i, stats, timed_out>>
Quiet == UNCHANGED <<opt, files, mode, i, timed_out>>

\* reinit_trace's tables.
LEMMA EmptyTables ==
  ASSUME NEW f, NEW d \in [Ids(f) -> Nat]
  PROVE  Tables(f, [x \in Ids(f) |-> NULL], [x \in Ids(f) |-> 0], d)
BY DEF Tables

\* read_trace.
LEMMA TRead == TInv /\ read_trace => TInv'
<1> SUFFICES ASSUME TInv, read_trace PROVE TInv'
  OBVIOUS
<1>1. Quiet /\ UNCHANGED <<k, faulty>>
  BY DEF read_trace, Quiet
<1>2. trace' = trace /\ k = 1 /\ k' = 1
  BY <1>1 DEF read_trace, TInv, Quiet, trace
<1>3. stats' \in [DOMAIN files -> Stat]
  <2>1. stats[i] \in Stat
    BY DEF TInv
  <2>2. CASE stats' = stats
    BY <2>2 DEF TInv
  <2>3. CASE stats' = [stats EXCEPT ![i].valid = FALSE]
    BY <2>1, <2>3 DEF TInv, Stat
  <2> QED BY <2>2, <2>3 DEF read_trace
<1>4. pc' \in Points /\ pc' # "check" /\ pc' # "util" /\ (Running' => Readable(trace))
  BY DEF read_trace, Points, Running
<1>5. Tables(trace, blocks', block_sizes', block_rand_base')
  <2>1. [x \in Ids(trace) |-> 0] \in [Ids(trace) -> Nat]
    OBVIOUS
  <2>2. block_rand_base' = [x \in Ids(trace) |-> 0] /\ blocks' = [x \in Ids(trace) |-> NULL]
        /\ block_sizes' = [x \in Ids(trace) |-> 0]
    BY DEF read_trace
  <2> QED BY <2>1, <2>2, EmptyTables
<1>6. Readable(trace) => k' =< trace.num_ops + 1
  <2>1. trace.num_ops \in Nat
    BY TraceHere DEF Trace
  <2> QED BY <1>2, <2>1
<1> QED BY <1>1, <1>2, <1>3, <1>4, <1>5, <1>6 DEF TInv, Quiet, trace

\* eval_libc_valid.
LEMMA TLibc == TInv /\ eval_libc_valid => TInv'
<1> SUFFICES ASSUME TInv, eval_libc_valid PROVE TInv'
  OBVIOUS
<1>1. Frame /\ UNCHANGED <<k, faulty, block_rand_base>>
  BY DEF eval_libc_valid, Frame
<1>2. trace' = trace
  BY <1>1 DEF Frame, trace
<1>3. Running /\ Tables(trace, blocks, block_sizes, block_rand_base)
  BY DEF TInv, eval_libc_valid, Running
<1>4. Tables(trace, blocks', block_sizes', block_rand_base')
  BY <1>1, <1>3, EmptyTables DEF eval_libc_valid, reinit_trace, Tables
<1>5. pc' \in Points /\ pc' # "check" /\ pc' # "util" /\ pc' # "read" /\ pc' # "valid"
  BY DEF eval_libc_valid, Points
<1> QED BY <1>1, <1>2, <1>3, <1>4, <1>5 DEF TInv, Frame

\* free_trace.
LEMMA TFree == TInv /\ free_trace => TInv'
<1> SUFFICES ASSUME TInv, free_trace PROVE TInv'
  OBVIOUS
<1>1. UNCHANGED <<opt, files, stats, timed_out, faulty>> /\ k' = 1
  BY DEF free_trace
<1>2. i' \in DOMAIN files
  <2>1. DOMAIN files = 1..Len(files) /\ Len(files) \in Nat /\ files # <<>>
    BY FilesAre, DriverAssumption DEF TInv
  <2>2. i \in 1..Len(files)
    BY <2>1 DEF TInv
  <2>3. PICK n \in Nat : n = Len(files)
    BY <2>1
  <2>4. i' = 1 \/ i' = i \/ (i' = i + 1 /\ i # n)
    BY <2>3 DEF free_trace
  <2>5. i' \in 1..n
    BY <2>2, <2>3, <2>4
  <2> QED BY <2>1, <2>3, <2>5
<1>3. Len(trace'.ops) \in Nat
  BY <1>1, <1>2, FilesAre DEF TInv, trace
<1>4. pc' \in {"report", "read"} /\ mode' \in {"libc", "mm"}
  BY DEF free_trace, TInv
<1> QED BY <1>1, <1>2, <1>3, <1>4 DEF TInv, Points, Running

\* The steps of a replay, in which the trace stays.
LEMMA TReplay ==
  ASSUME TInv, Quiet, Running,
         stats' \in [DOMAIN files -> Stat], faulty' \in BOOLEAN,
         pc' \in Points \ {"read", "valid"}, k' \in 1 .. trace.num_ops + 1,
         Running' => Tables(trace, blocks', block_sizes', block_rand_base'),
         pc' \in {"check", "util"} => mode = "mm",
         pc' = "util" => total_size' \in Int /\ max_total_size' \in Nat
  PROVE  TInv'
<1>1. trace' = trace
  BY DEF Quiet, trace
<1>2. PICK f \in Trace : f = trace /\ Readable(f) /\ f.num_ops =< Len(f.ops) /\ f.num_ops \in Nat /\ Len(f.ops) \in Nat
  BY TraceHere, TraceIs
<1>3. k' \in 1 .. Len(trace.ops) + 1 /\ k' =< trace.num_ops + 1
  <2>1. PICK n \in Nat, m \in Nat : n = f.num_ops /\ m = Len(f.ops) /\ n =< m
    BY <1>2
  <2>2. k' \in 1..(n + 1)
    BY <1>2, <2>1
  <2> QED BY <1>2, <2>1, <2>2
<1> QED BY <1>1, <1>2, <1>3 DEF TInv, Quiet

\* The start of eval_mm_valid.
LEMMA TStartValid == TInv /\ StartValid => TInv'
<1> SUFFICES ASSUME TInv, StartValid PROVE TInv'
  OBVIOUS
<1>1. Quiet /\ UNCHANGED <<k, block_rand_base, stats>> /\ Running /\ mode = "mm"
  BY DEF StartValid, Quiet, Running
<1>2. Tables(trace, blocks', block_sizes', block_rand_base')
  BY <1>1, EmptyTables DEF TInv, StartValid, reinit_trace, Tables
<1>3. pc' \in {"check", "free"} /\ faulty' \in BOOLEAN
  BY DEF StartValid, TInv
<1>4. k' \in 1 .. trace.num_ops + 1
  <2>1. trace.num_ops \in Nat
    BY TraceHere DEF Trace
  <2> QED BY <1>1, <2>1, TraceHere DEF TInv
<1>5. stats' \in [DOMAIN files -> Stat]
  BY <1>1 DEF TInv
<1> QED BY <1>1, <1>2, <1>3, <1>4, <1>5, TReplay DEF Points

\* A request that is over moves on within the trace.
LEMMA TAccept ==
  ASSUME TInv, pc = "check", k =< trace.num_ops, op.type # "f", ValidFrame, faulty' \in BOOLEAN,
         NEW found, NEW lo \in Int \cup {NULL}, NEW size \in Nat, NEW rs, NEW m,
         Accept(found, lo, size, rs, m)
  PROVE  TInv'
<1>1. Quiet /\ UNCHANGED stats /\ Running /\ pc' = "check" /\ k' = k + 1
  BY DEF ValidFrame, Quiet, Running, Accept
<1>2. op.index \in Ids(trace)
  BY OpHere
<1>3. Tables(trace, blocks', block_sizes', block_rand_base')
  BY <1>1, <1>2, TraceHere DEF Accept, TInv, Tables
<1>4. k' \in 1 .. trace.num_ops + 1
  <2>1. trace.num_ops \in Nat
    BY TraceHere DEF Trace
  <2> QED BY <1>1, <2>1, TraceHere
<1> QED BY <1>1, <1>3, <1>4, TReplay DEF TInv, Points

\* A refusal, or an end, leaves the replay where it is.
LEMMA TStay ==
  ASSUME TInv, Running, Quiet, UNCHANGED <<k, arrays, stats>>, faulty' \in BOOLEAN,
         pc' \in {"free", "exit", "hang"}
  PROVE  TInv'
<1>1. trace.num_ops \in Nat
  BY TraceHere DEF Trace
<1>2. k' \in 1 .. trace.num_ops + 1
  BY <1>1, TraceHere DEF TInv
<1> QED BY <1>2, TReplay DEF TInv, Points, Running

\* mm_malloc's request.
LEMMA TAlloc == TInv /\ ALLOC => TInv'
<1> SUFFICES ASSUME TInv, ALLOC PROVE TInv'
  OBVIOUS
<1>0. pc = "check" /\ k =< trace.num_ops /\ op.type = "a" /\ ValidFrame /\ op.size \in Nat
  BY OpHere DEF ALLOC, Request
<1>1. Quiet /\ UNCHANGED stats /\ Running
  BY <1>0 DEF ValidFrame, Quiet, Running
<1>2. PICK p \in Addresses \cup {NULL}, bytes \in Scribbles :
         /\ faulty' = (faulty \/ p = NULL \/ Misplaced(p, op.size, Live)
                              \/ bytes \cap Taken(Live) # {})
         /\ IF p = NULL THEN Refuse(Expensive, ranges)
            ELSE IF op.size = 0
              THEN pc' = "exit" /\ UNCHANGED <<k, errors, arrays, checker>>
            ELSE IF ~add_range_Accepts(ranges, p, op.size) THEN Refuse(Expensive, ranges)
            ELSE Accept(Expensive, p, op.size, add_range(ranges, p, op.size, op.index),
                        Scribbled(mem, bytes))
  BY Zenon DEF ALLOC
<1>3. faulty' \in BOOLEAN
  BY <1>2
<1>4. CASE Refuse(Expensive, ranges)
  BY <1>1, <1>3, <1>4, TStay DEF Refuse
<1>5. CASE pc' = "exit" /\ UNCHANGED <<k, errors, arrays, checker>>
  BY <1>1, <1>3, <1>5, TStay
<1>6. CASE p # NULL /\ Accept(Expensive, p, op.size, add_range(ranges, p, op.size, op.index),
                              Scribbled(mem, bytes))
  <2>1. p \in Int \cup {NULL}
    BY DriverAssumption
  <2> QED BY <1>0, <1>3, <1>6, <2>1, TAccept
<1> QED BY <1>2, <1>4, <1>5, <1>6

\* The parts of a realloc.
Kept == IF op.size < block_sizes[op.index] THEN op.size ELSE block_sizes[op.index]
Found == Expensive + check_index(mem, blocks[op.index], block_sizes[op.index], block_rand_base[op.index])
Rest == remove_range(ranges, blocks[op.index])
Copied(newp, bytes) ==
  Scribbled([a \in Heap |-> IF newp # NULL /\ a \in newp .. newp + Kept - 1
                             THEN mem[blocks[op.index] + a - newp] ELSE mem[a]], bytes)
MoreFound(newp, bytes) == check_index(Copied(newp, bytes), newp, Kept, block_rand_base[op.index])
ReallocFault(newp, bytes) ==
  \/ faulty
  \/ (newp = NULL) # (op.size = 0)
  \/ newp # NULL /\ Misplaced(newp, op.size, Live \ {op.index})
  \/ bytes \cap Taken(Live \ {op.index}) # {}
  \/ newp # NULL /\ bytes \cap (newp .. newp + Kept - 1) # {}
ReallocDo(newp, bytes) ==
  IF (newp = NULL) # (op.size = 0) THEN Refuse(Found, ranges)
  ELSE IF newp = NULL THEN Accept(Found, NULL, 0, Rest, Scribbled(mem, bytes))
  ELSE IF ~add_range_Accepts(Rest, newp, op.size) THEN Refuse(Found, Rest)
  ELSE Accept(Found + MoreFound(newp, bytes), newp, op.size,
              add_range(Rest, newp, op.size, op.index), Copied(newp, bytes))

\* A realloc is made of these parts.
LEMMA ReallocIs ==
  ASSUME REALLOC
  PROVE  \E newp \in Addresses \cup {NULL}, bytes \in Scribbles :
           faulty' = ReallocFault(newp, bytes) /\ ReallocDo(newp, bytes)
BY Zenon DEF REALLOC, ReallocFault, ReallocDo, Found, Rest, Copied, MoreFound, Kept

\* mm_realloc's request.
LEMMA TRealloc == TInv /\ REALLOC => TInv'
<1> SUFFICES ASSUME TInv, REALLOC PROVE TInv'
  OBVIOUS
<1>0. pc = "check" /\ k =< trace.num_ops /\ op.type = "r" /\ ValidFrame
  BY DEF REALLOC, Request
<1>00. op.size \in Nat
  BY <1>0, OpHere
<1>1. Quiet /\ UNCHANGED stats /\ Running
  BY <1>0 DEF ValidFrame, Quiet, Running
<1>2. PICK newp \in Addresses \cup {NULL}, bytes \in Scribbles :
           faulty' = ReallocFault(newp, bytes) /\ ReallocDo(newp, bytes)
  BY ReallocIs
<1>3. faulty' \in BOOLEAN
  BY <1>2 DEF ReallocFault
<1>4. CASE Refuse(Found, ranges) \/ Refuse(Found, Rest)
  BY <1>1, <1>3, <1>4, TStay DEF Refuse
<1>5. CASE Accept(Found, NULL, 0, Rest, Scribbled(mem, bytes))
  <2>1. NULL \in Int \cup {NULL} /\ 0 \in Nat
    OBVIOUS
  <2> QED BY <1>0, <1>3, <1>5, <2>1, TAccept
<1>6. CASE Accept(Found + MoreFound(newp, bytes), newp, op.size,
                  add_range(Rest, newp, op.size, op.index), Copied(newp, bytes))
  <2>1. newp \in Int \cup {NULL}
    BY DriverAssumption
  <2> QED BY <1>0, <1>00, <1>3, <1>6, <2>1, TAccept
<1> QED BY <1>2, <1>4, <1>5, <1>6 DEF ReallocDo

\* mm_free's request.
LEMMA TFreeBlock == TInv /\ FREE => TInv'
<1> SUFFICES ASSUME TInv, FREE PROVE TInv'
  OBVIOUS
<1>0. pc = "check" /\ k =< trace.num_ops /\ op.type = "f" /\ ValidFrame /\ k' = k + 1 /\ UNCHANGED <<pc, arrays>>
  BY DEF FREE, Request
<1>1. Quiet /\ UNCHANGED stats /\ Running
  BY <1>0 DEF ValidFrame, Quiet, Running
<1>2. faulty' \in BOOLEAN
  BY DEF FREE
<1>3. k' \in 1 .. trace.num_ops + 1
  <2>1. trace.num_ops \in Nat
    BY TraceHere DEF Trace
  <2> QED BY <1>0, <2>1, TraceHere
<1> QED BY <1>0, <1>1, <1>2, <1>3, TReplay DEF TInv, Points, arrays

\* The end of eval_mm_valid.
LEMMA TJudged == TInv /\ Judged => TInv'
<1> SUFFICES ASSUME TInv, Judged PROVE TInv'
  OBVIOUS
<1>1. Quiet /\ UNCHANGED <<faulty, block_rand_base>> /\ Running /\ mode = "mm" /\ k' = 1
  BY DEF Judged, Quiet, Running, TInv
<1>2. stats' \in [DOMAIN files -> Stat]
  <2>1. stats[i] \in Stat
    BY DEF TInv
  <2> QED BY <2>1 DEF Judged, TInv, Stat
<1>3. Tables(trace, blocks', block_sizes', block_rand_base')
  BY <1>1, EmptyTables DEF TInv, Judged, reinit_trace, Tables
<1>4. k' \in 1 .. trace.num_ops + 1
  <2>1. trace.num_ops \in Nat
    BY TraceHere DEF Trace
  <2> QED BY <1>1, <2>1
<1>5. pc' \in {"free", "util"} /\ total_size' \in Int /\ max_total_size' \in Nat
  BY DEF Judged
<1> QED BY <1>1, <1>2, <1>3, <1>4, <1>5, TReplay DEF TInv, Points

\* A request of eval_mm_util.
LEMMA TMeasureSpace == TInv /\ MeasureSpace => TInv'
<1> SUFFICES ASSUME TInv, MeasureSpace PROVE TInv'
  OBVIOUS
<1>0. pc = "util" /\ k =< trace.num_ops /\ mode = "mm"
  BY DEF MeasureSpace, TInv
<1>1. Quiet /\ UNCHANGED <<stats, pc, faulty, blocks, block_rand_base>> /\ Running /\ k' = k + 1
  BY <1>0 DEF MeasureSpace, Quiet, Running
<1>2. op.type \in {"a", "r", "f"} /\ op.size \in Nat
      /\ (op.index \in Ids(trace) \/ (op.type = "f" /\ op.index = -1))
  BY <1>0, OpHere
<1>3. Tables(trace, blocks, block_sizes, block_rand_base)
  BY <1>1 DEF TInv
<1>4. Tables(trace, blocks', block_sizes', block_rand_base')
  BY <1>1, <1>2, <1>3 DEF MeasureSpace, Tables
<1>5. PICK before \in Int, size \in Int :
        /\ total_size' = total_size + size - before
        /\ max_total_size' = IF total_size' > max_total_size THEN total_size' ELSE max_total_size
  <2> DEFINE size == IF op.type = "f" THEN 0 ELSE op.size
             before == IF op.type = "a" \/ op.index < 0 THEN 0 ELSE block_sizes[op.index]
  <2>1. size \in Int /\ before \in Int
    <3>1. op.index \in Ids(trace) => block_sizes[op.index] \in Int
      BY <1>3 DEF Tables
    <3>2. -1 < 0
      OBVIOUS
    <3> QED BY <1>2, <3>1, <3>2
  <2>2. total_size' = total_size + size - before
        /\ max_total_size' = IF total_size' > max_total_size THEN total_size' ELSE max_total_size
    BY Zenon DEF MeasureSpace
  <2> HIDE DEF size, before
  <2> QED BY <2>1, <2>2
<1>6. total_size' \in Int /\ max_total_size' \in Nat
  BY <1>0, <1>5 DEF TInv
<1>7. k' \in 1 .. trace.num_ops + 1
  <2>1. trace.num_ops \in Nat
    BY TraceHere DEF Trace
  <2> QED BY <1>0, <1>1, <2>1, TraceHere
<1>8. stats' \in [DOMAIN files -> Stat] /\ faulty' \in BOOLEAN
  BY <1>1 DEF TInv
<1> QED BY <1>0, <1>1, <1>4, <1>6, <1>7, <1>8, TReplay DEF Points

\* The end of eval_mm_util.
LEMMA TMeasured == TInv /\ Measured => TInv'
<1> SUFFICES ASSUME TInv, Measured PROVE TInv'
  OBVIOUS
<1>1. Quiet /\ UNCHANGED <<faulty, blocks, block_sizes, block_rand_base, k>> /\ Running /\ pc' = "speed"
  BY DEF Measured, Quiet, Running, arrays
<1>2. stats' \in [DOMAIN files -> Stat]
  <2>1. stats[i] \in Stat /\ max_total_size \in Nat
    BY DEF TInv, Measured
  <2> QED BY <2>1 DEF Measured, TInv, Stat
<1>4. k' \in 1 .. trace.num_ops + 1
  <2>1. trace.num_ops \in Nat
    BY TraceHere DEF Trace
  <2> QED BY <1>1, <2>1, TraceHere DEF TInv
<1> QED BY <1>1, <1>2, <1>4, TReplay DEF TInv, Points

\* A run inside fcyc.
LEMMA TTimeRun == TInv /\ TimeRun => TInv'
<1> SUFFICES ASSUME TInv, TimeRun PROVE TInv'
  OBVIOUS
<1>1. Quiet /\ UNCHANGED <<faulty, block_rand_base, k, pc, stats>> /\ Running /\ pc = "speed"
  BY DEF TimeRun, Quiet, Running
<1>3. Tables(trace, blocks', block_sizes', block_rand_base')
  BY <1>1, EmptyTables DEF TInv, TimeRun, reinit_trace, Tables
<1>4. k' \in 1 .. trace.num_ops + 1
  <2>1. trace.num_ops \in Nat
    BY TraceHere DEF Trace
  <2> QED BY <1>1, <2>1, TraceHere DEF TInv
<1> QED BY <1>1, <1>3, <1>4, TReplay DEF TInv, Points

\* The time that fcyc returns.
LEMMA TTimed == TInv /\ FInv /\ Timed => TInv'
<1> SUFFICES ASSUME TInv, FInv, Timed PROVE TInv'
  OBVIOUS
<1>1. Quiet /\ UNCHANGED <<faulty, blocks, block_sizes, block_rand_base, k>> /\ Running /\ pc' = "free"
  BY DEF Timed, Quiet, Running, arrays
<1>2. values[1] \in Int
  <2>1. PICK n \in Nat \ {0} : n = kbest
    BY SamplerAssumption
  <2>2. PICK m \in Nat : m = Len(samples) /\ m > 0
    BY DEF FInv, Timed, Sampled
  <2>3. values \in Seq(Int) /\ Smallest(values, samples, kbest)
    BY DEF FInv
  <2>4. Len(values) = IF Len(samples) < kbest THEN Len(samples) ELSE kbest
    BY Zenon, <2>3 DEF Smallest
  <2>5. Len(values) = IF m < n THEN m ELSE n
    BY <2>1, <2>2, <2>4
  <2>6. 1 \in 1..Len(values)
    BY <2>2, <2>5
  <2> QED BY <2>3, <2>6
<1>3. stats' \in [DOMAIN files -> Stat]
  <2>1. stats[i] \in Stat
    BY DEF TInv
  <2>2. CASE stats' = stats
    BY <2>2 DEF TInv
  <2>3. CASE stats' = [stats EXCEPT ![i].secs = values[1]]
    BY <1>2, <2>1, <2>3 DEF TInv, Stat
  <2> QED BY <2>2, <2>3 DEF Timed
<1>4. k' \in 1 .. trace.num_ops + 1
  <2>1. trace.num_ops \in Nat
    BY TraceHere DEF Trace
  <2> QED BY <1>1, <2>1, TraceHere DEF TInv
<1> QED BY <1>1, <1>3, <1>4, TReplay DEF TInv, Points

\* app_error in a replay.
LEMMA TReplayFails == TInv /\ ReplayFails => TInv'
BY TStay DEF ReplayFails, TInv, Running, Quiet, arrays

\* A package that never returns.
LEMMA THang == TInv /\ Hang => TInv'
<1> SUFFICES ASSUME TInv, Hang PROVE TInv'
  OBVIOUS
<1>1. Running /\ Quiet /\ UNCHANGED <<k, arrays, stats>> /\ faulty' \in BOOLEAN /\ pc' = "hang"
  BY DEF Hang, Running, Quiet
<1> QED BY <1>1, TStay

\* timeout_handler.
LEMMA TTimeout == TInv /\ timeout_handler => TInv'
<1> SUFFICES ASSUME TInv, timeout_handler PROVE TInv'
  OBVIOUS
<1>1. UNCHANGED <<opt, files, mode, i, stats>> /\ faulty' = TRUE /\ trace' = trace
  BY DEF timeout_handler, trace
<1>2. (pc' = "undefined" /\ UNCHANGED <<timed_out, k>>) \/ (pc' = "read" /\ timed_out' = TRUE /\ k' = 1)
  BY DEF timeout_handler
<1>3. k' \in 1 .. Len(trace.ops) + 1
  BY <1>2, TraceHere DEF TInv
<1>4. timed_out' \in BOOLEAN /\ pc' \in Points /\ ~Running' /\ pc' \notin {"valid", "check", "util"}
      /\ (pc' = "read" => k' = 1)
  BY <1>2 DEF TInv, Points, Running
<1> QED BY <1>1, <1>3, <1>4 DEF TInv

\* The end of main.
LEMMA TReport == TInv /\ Report => TInv'
<1> SUFFICES ASSUME TInv, Report PROVE TInv'
  OBVIOUS
<1>1. UNCHANGED <<opt, files, mode, i, stats, k, timed_out, faulty>> /\ pc' = "exit" /\ trace' = trace
  BY DEF Report, trace
<1> QED BY <1>1 DEF TInv, Points, Running

\* No step.
LEMMA TStutter == TInv /\ UNCHANGED vars => TInv'
<1> SUFFICES ASSUME TInv, UNCHANGED vars PROVE TInv'
  OBVIOUS
<1>1. trace' = trace
  BY DEF vars, dvars, trace
<1> QED BY <1>1 DEF TInv, vars, dvars, arrays, meter, Running

\* Every step keeps the phases, the position in the trace and the types of its tables.
LEMMA TStep == TInv /\ FInv /\ [Next]_vars => TInv'
BY TRead, TLibc, TFree, TStartValid, TAlloc, TRealloc, TFreeBlock, TJudged, TMeasureSpace, TMeasured,
   TTimeRun, TTimed, TReplayFails, THang, TTimeout, TReport, TStutter DEF Next, Step

\* The range list, when one is kept, and the records are those of the trace.
RangesAre(H, b, z, rs) == IF NoRanges THEN rs = <<>> ELSE Lists(H, b, z, rs)
RInv ==
  pc = "check" =>
    /\ Records(trace, k - 1, blocks, block_sizes, block_rand_base)
    /\ RangesAre(Held(trace, k - 1), blocks, block_sizes, ranges)

\* The trace at a request of eval_mm_valid's loop, for rigid parts.
At(f, n) == f = trace /\ n + 1 = k /\ f \in Trace /\ Readable(f) /\ n \in Nat /\ n + 1 =< f.num_ops

\* There is such a place.
LEMMA AtRequest ==
  ASSUME TInv, pc \in {"check", "util"}, k =< trace.num_ops
  PROVE  \E f, n : At(f, n) /\ k - 1 = n /\ op = f.ops[n + 1]
<1>1. trace \in Trace /\ Readable(trace) /\ k \in Nat \ {0}
  BY TraceHere DEF Running
<1>2. PICK n \in Nat : n = k - 1 /\ n + 1 = k
  BY <1>1
<1> QED BY <1>1, <1>2 DEF At, op

\* What the package has to leave alone is what the trace holds.
LEMMA LiveIsHeld == Live = Held(trace, k - 1)
BY DEF Live, Held

\* A request leaves the trace and the options alone.
LEMMA FrameHere ==
  ASSUME ValidFrame
  PROVE  trace' = trace /\ opt' = opt /\ (NoRanges' <=> NoRanges)
BY DEF ValidFrame, trace, NoRanges

\* What the records say of the payloads that are live.
LEMMA LiveBlocks ==
  ASSUME NEW f \in Trace, Readable(f), NEW n \in 0..f.num_ops, NEW b, NEW z, NEW d, Records(f, n, b, z, d),
         NEW x \in Held(f, n)
  PROVE  /\ x \in Ids(f) /\ b[x] \in Int /\ z[x] \in Nat /\ z[x] > 0
         /\ b[x] \in Heap /\ b[x] + z[x] - 1 \in Heap /\ d[x] \in 1..n
         /\ z[x] = Holds(f, n, x)
<1>1. x \in Ids(f) /\ Holds(f, n, x) > 0
  BY DEF Held
<1>2. Recorded(f, n, b, z, d, x) /\ z[x] \in Nat
  BY <1>1 DEF Records, Tables
<1>3. \A h \in Heap : h \in Int
  BY DriverAssumption DEF Heap
<1> QED BY <1>1, <1>2, <1>3 DEF Recorded

\* What add_range accepts can be put in the list.
LEMMA Accepted ==
  ASSUME TInv, NEW H, NEW b, NEW z, NEW rs, NEW lo \in Int, NEW size \in Nat, size > 0,
         ~NoRanges, Lists(H, b, z, rs), add_range_Accepts(rs, lo, size), NEW x \in Int
  PROVE  \E u \in Record : /\ u = [lo |-> lo, hi |-> lo + size - 1, index |-> x]
                           /\ \A p \in 1..Len(rs) : Apart(u, rs[p])
<1>1. PICK hi \in Int : hi = lo + size - 1 /\ lo =< hi
  OBVIOUS
<1>2. PICK u \in Record : u = [lo |-> lo, hi |-> hi, index |-> x]
  <2>1. [lo |-> lo, hi |-> hi, index |-> x] \in Record
    BY DEF Record
  <2> QED BY <2>1
<1>3. ASSUME NEW p \in 1..Len(rs) PROVE Apart(u, rs[p])
  <2>1. rs[p].lo \in Int /\ rs[p].hi \in Int /\ p \in DOMAIN rs
    BY SeqIs DEF Lists
  <2>2. ~Overlaps(lo, hi, rs[p])
    BY <1>1, <2>1 DEF add_range_Accepts
  <2> QED BY <1>1, <1>2, <2>1, <2>2 DEF Overlaps, Apart
<1> QED BY <1>1, <1>2, <1>3

\* What add_range accepts lies in the heap.
LEMMA AcceptedInside ==
  ASSUME NEW rs, NEW lo, NEW size, add_range_Accepts(rs, lo, size)
  PROVE  IS_ALIGNED(lo) /\ Inside(lo, lo + size - 1)
BY Zenon DEF add_range_Accepts

\* A block that is given out or moved is recorded.
LEMMA RAdd ==
  ASSUME TInv, RInv, pc = "check", k =< trace.num_ops, op.type # "f", ValidFrame,
         NEW rs, RangesAre(Held(trace, k - 1) \ {op.index}, blocks, block_sizes, rs),
         NEW lo \in Int, op.size > 0, add_range_Accepts(rs, lo, op.size),
         NEW found, NEW m, Accept(found, lo, op.size, add_range(rs, lo, op.size, op.index), m)
  PROVE  RInv'
<1>1. PICK f, n : At(f, n) /\ k - 1 = n /\ op = f.ops[n + 1]
  BY AtRequest
<1>2. PICK x \in Ids(f), s \in Nat :
        x = op.index /\ s = op.size /\ s > 0 /\ f.ops[n + 1].index = x /\ f.ops[n + 1].size = s
        /\ f.ops[n + 1].type # "f"
  BY <1>1, OpHere DEF At
<1>3. PICK b, z, d, b2, z2, d2 :
        /\ b = blocks /\ z = block_sizes /\ d = block_rand_base
        /\ b2 = [b EXCEPT ![x] = lo] /\ z2 = [z EXCEPT ![x] = s] /\ d2 = [d EXCEPT ![x] = n + 1]
  OBVIOUS
<1>4. blocks' = b2 /\ block_sizes' = z2 /\ block_rand_base' = d2 /\ k' - 1 = n + 1 /\ trace' = f
      /\ ranges' = add_range(rs, lo, s, x)
  <2>1. /\ blocks' = [blocks EXCEPT ![op.index] = lo] /\ block_sizes' = [block_sizes EXCEPT ![op.index] = op.size]
        /\ block_rand_base' = [block_rand_base EXCEPT ![op.index] = k]
        /\ ranges' = add_range(rs, lo, op.size, op.index) /\ k' = k + 1
    BY DEF Accept
  <2>2. k' - 1 = n + 1 /\ n + 1 = k /\ trace' = f
    BY <1>1, <2>1, FrameHere DEF At
  <2> QED BY <1>2, <1>3, <2>1, <2>2
<1>5. Records(f, n, b, z, d)
  BY <1>1, <1>3 DEF RInv, At
<1>6. Inside(lo, lo + s - 1)
  BY <1>2, AcceptedInside
<1>7. Records(f, n + 1, b2, z2, d2)
  BY <1>1, <1>2, <1>3, <1>5, <1>6, RecordsSet DEF At
<1>8. Held(f, n + 1) = Held(f, n) \cup {x}
  BY <1>1, <1>2, HeldStep DEF At
<1>9. PICK H : H = Held(f, n) \ {x}
  OBVIOUS
<1>10. Held(f, n + 1) = H \cup {x}
  BY <1>8, <1>9
<1>11. ASSUME ~NoRanges PROVE Lists(H \cup {x}, b2, z2, ranges')
  <2>1. Lists(H, b, z, rs)
    BY <1>1, <1>2, <1>3, <1>9, <1>11 DEF RangesAre, At
  <2>2. b2[x] = lo /\ z2[x] = s /\ \A y \in H : b2[y] = b[y] /\ z2[y] = z[y]
    BY <1>2, <1>3, <1>5, <1>9 DEF Records, Tables, Held
  <2>3. Lists(H, b2, z2, rs)
    BY <2>1, <2>2, ListOthers
  <2>4. x \in Int /\ add_range_Accepts(rs, lo, s)
    BY <1>2, OpHere
  <2>5. PICK u \in Record : /\ u = [lo |-> lo, hi |-> lo + s - 1, index |-> x]
                            /\ \A p \in 1..Len(rs) : Apart(u, rs[p])
    BY <1>2, <1>11, <2>3, <2>4, Accepted
  <2>6. Entry(b2, z2, u, x)
    BY <2>2, <2>5 DEF Entry
  <2>7. ranges' = <<u>> \o rs
    BY <1>4, <1>11, <2>5 DEF add_range
  <2>8. x \notin H
    BY <1>9
  <2> QED BY <2>3, <2>5, <2>6, <2>7, <2>8, ListAdd
<1>12. ASSUME NoRanges PROVE ranges' = <<>>
  BY <1>4, <1>12 DEF RangesAre, add_range
<1>13. IF NoRanges' THEN ranges' = <<>> ELSE Lists(Held(f, n + 1), b2, z2, ranges')
  <2>1. NoRanges' <=> NoRanges
    BY FrameHere
  <2> QED BY <1>10, <1>11, <1>12, <2>1
<1> QED BY <1>4, <1>7, <1>13 DEF RInv, RangesAre

\* The list without the block of this request.
LEMMA RRest ==
  ASSUME TInv, RInv, pc = "check", k =< trace.num_ops, op.index \in Ids(trace), op.type # "a"
  PROVE  RangesAre(Held(trace, k - 1) \ {op.index}, blocks, block_sizes, Rest)
<1>1. PICK f, n : At(f, n) /\ k - 1 = n /\ op = f.ops[n + 1]
  BY AtRequest
<1>2. PICK x \in Ids(f) : x = op.index /\ f.ops[n + 1].index = x
  BY <1>1 DEF At
<1>3. PICK b, z, d : b = blocks /\ z = block_sizes /\ d = block_rand_base /\ Records(f, n, b, z, d)
  BY <1>1 DEF RInv, At
<1>4. PICK H : H = Held(f, n)
  OBVIOUS
<1>5. CASE NoRanges
  <2>1. ranges = <<>>
    BY <1>5 DEF RInv, RangesAre
  <2>2. DOMAIN ranges = {}
    BY <2>1
  <2>3. remove_range(ranges, blocks[op.index]) = ranges
    BY <2>2 DEF remove_range
  <2> QED BY <1>5, <2>1, <2>3 DEF Rest, RangesAre
<1>6. CASE ~NoRanges
  <2>1. Lists(H, b, z, ranges)
    BY <1>1, <1>3, <1>4, <1>6 DEF RInv, RangesAre, At
  <2>2. \A y \in H : b[y] \in Int /\ z[y] \in Nat /\ z[y] > 0
    <3>1. n \in 0..f.num_ops
      BY <1>1, TraceIs DEF At
    <3>2. f \in Trace /\ Readable(f)
      BY <1>1 DEF At
    <3> QED BY <1>3, <1>4, <3>1, <3>2, LiveBlocks
  <2>3. CASE x \in H
    <3>1. Lists(H \ {x}, b, z, remove_range(ranges, b[x]))
      BY <2>1, <2>2, <2>3, ListRemove
    <3> QED BY <1>1, <1>2, <1>3, <1>4, <1>6, <3>1 DEF Rest, RangesAre, At
  <2>4. CASE x \notin H
    <3>1. ~(Holds(f, n, x) > 0) /\ ~Freed(f, n, x)
      BY <1>1, <1>2, <1>4, <2>4, OpHere DEF Held, At
    <3>2. b[x] = NULL
      BY <1>3, <3>1 DEF Records, Recorded
    <3>3. remove_range(ranges, b[x]) = ranges
      BY <2>1, <3>2, ListRemoveNull
    <3>4. H \ {x} = H
      BY <2>4
    <3> QED BY <1>1, <1>2, <1>3, <1>4, <1>6, <2>1, <3>3, <3>4 DEF Rest, RangesAre, At
  <2> QED BY <2>3, <2>4
<1> QED BY <1>5, <1>6

\* clear_ranges: eval_mm_valid starts with an empty list.
LEMMA RStart == TInv /\ StartValid => RInv'
<1> SUFFICES ASSUME TInv, StartValid, pc' = "check" PROVE RInv'
  BY DEF RInv
<1>1. PICK f \in Trace : f = trace /\ Readable(f)
  BY TraceHere DEF Running, StartValid
<1>2. trace' = f /\ k' - 1 = 0
  BY <1>1 DEF StartValid, TInv, trace
<1>3. Tables(f, blocks', block_sizes', block_rand_base')
      /\ blocks' = [x \in Ids(f) |-> NULL] /\ block_sizes' = [x \in Ids(f) |-> 0]
  <2>1. TInv'
    BY TStartValid
  <2> QED BY <1>1, <1>2, <2>1 DEF TInv, Running, StartValid, reinit_trace
<1>4. Records(f, 0, blocks', block_sizes', block_rand_base')
  BY <1>1, <1>3, RecordsStart
<1>5. ranges' = <<>>
  BY DEF StartValid
<1>6. Held(f, 0) = {}
  <2>1. \A x : Holds(f, 0, x) = 0
    BY HoldsStep
  <2> QED BY <2>1 DEF Held
<1>7. Lists({}, blocks', block_sizes', <<>>)
  BY DEF Lists
<1> QED BY <1>2, <1>4, <1>5, <1>6, <1>7 DEF RInv, RangesAre

\* mm_malloc's request.
LEMMA RAlloc == TInv /\ RInv /\ ALLOC => RInv'
<1> SUFFICES ASSUME TInv, RInv, ALLOC, pc' = "check" PROVE RInv'
  BY DEF RInv
<1>0. pc = "check" /\ k =< trace.num_ops /\ op.type = "a" /\ ValidFrame
  BY DEF ALLOC, Request
<1>1. PICK p \in Addresses \cup {NULL}, bytes \in Scribbles :
         /\ p # NULL /\ op.size # 0 /\ add_range_Accepts(ranges, p, op.size)
         /\ Accept(Expensive, p, op.size, add_range(ranges, p, op.size, op.index), Scribbled(mem, bytes))
  <2>1. \A found, rs : Refuse(found, rs) => pc' = "free"
    BY DEF Refuse
  <2> QED BY <2>1 DEF ALLOC
<1>2. op.size \in Nat /\ op.size > 0 /\ p \in Int /\ Holds(trace, k - 1, op.index) = 0
  BY <1>0, <1>1, OpHere, DriverAssumption
<1>3. Held(trace, k - 1) \ {op.index} = Held(trace, k - 1)
  BY <1>2 DEF Held
<1>4. RangesAre(Held(trace, k - 1) \ {op.index}, blocks, block_sizes, ranges)
  BY <1>0, <1>3 DEF RInv
<1>5. op.type # "f"
  BY <1>0
<1> QED BY <1>0, <1>1, <1>2, <1>4, <1>5, RAdd

\* The list after a block has gone.
LEMMA RLess ==
  ASSUME TInv, RInv, pc = "check", k =< trace.num_ops, ValidFrame,
         NEW f, NEW n, At(f, n), k' = k + 1,
         NEW b, NEW z, NEW d, Records(f, n + 1, b, z, d), b = blocks', z = block_sizes', d = block_rand_base',
         \A y \in Held(f, n + 1) : b[y] = blocks[y] /\ z[y] = block_sizes[y],
         RangesAre(Held(f, n + 1), blocks, block_sizes, ranges')
  PROVE  RInv'
<1>1. trace' = f /\ k' - 1 = n + 1 /\ (NoRanges' <=> NoRanges)
  BY FrameHere, TraceHere DEF At
<1>2. ~NoRanges => Lists(Held(f, n + 1), b, z, ranges')
  BY ListOthers DEF RangesAre
<1>3. IF NoRanges' THEN ranges' = <<>> ELSE Lists(Held(f, n + 1), b, z, ranges')
  BY <1>1, <1>2 DEF RangesAre
<1> QED BY <1>1, <1>3 DEF RInv, RangesAre

\* mm_realloc's request.
LEMMA RRealloc == TInv /\ RInv /\ REALLOC => RInv'
<1> SUFFICES ASSUME TInv, RInv, REALLOC, pc' = "check" PROVE RInv'
  BY DEF RInv
<1>0. pc = "check" /\ k =< trace.num_ops /\ op.type = "r" /\ ValidFrame
  BY DEF REALLOC, Request
<1>1. PICK newp \in Addresses \cup {NULL}, bytes \in Scribbles : ReallocDo(newp, bytes)
  BY ReallocIs
<1>2. \A found, rs : ~Refuse(found, rs)
  BY DEF Refuse
<1>3. op.index \in Ids(trace) /\ op.type # "a" /\ op.type # "f" /\ op.size \in Nat
  BY <1>0, OpHere
<1>4. RangesAre(Held(trace, k - 1) \ {op.index}, blocks, block_sizes, Rest)
  BY <1>0, <1>3, RRest
<1>5. CASE newp = NULL
  <2>1. op.size = 0 /\ Accept(Found, NULL, 0, Rest, Scribbled(mem, bytes))
    BY <1>1, <1>2, <1>5 DEF ReallocDo
  <2>2. PICK f, n : At(f, n) /\ k - 1 = n /\ op = f.ops[n + 1]
    BY <1>0, AtRequest
  <2>3. PICK x \in Ids(f) : x = op.index /\ f.ops[n + 1].index = x /\ f.ops[n + 1].type # "f" /\ f.ops[n + 1].size = 0
    BY <1>3, <2>1, <2>2 DEF At
  <2>4. PICK b, z, d : b = blocks' /\ z = block_sizes' /\ d = block_rand_base'
    OBVIOUS
  <2>5. /\ b = [blocks EXCEPT ![x] = NULL] /\ z = [block_sizes EXCEPT ![x] = 0]
        /\ d = [block_rand_base EXCEPT ![x] = n + 1] /\ ranges' = Rest /\ k' = k + 1
    BY <2>1, <2>2, <2>3, <2>4 DEF Accept, At
  <2>6. Records(f, n, blocks, block_sizes, block_rand_base)
    BY <1>0, <2>2 DEF RInv, At
  <2>7. Records(f, n + 1, b, z, d)
    BY <2>2, <2>3, <2>5, <2>6, RecordsGone DEF At
  <2>8. Held(f, n + 1) = Held(f, n) \ {x}
    BY <2>2, <2>3, HeldStep DEF At
  <2>9. \A y \in Held(f, n + 1) : b[y] = blocks[y] /\ z[y] = block_sizes[y]
    BY <2>5, <2>6, <2>8 DEF Records, Tables, Held
  <2>10. RangesAre(Held(f, n + 1), blocks, block_sizes, ranges')
    BY <1>4, <2>2, <2>3, <2>5, <2>8 DEF At
  <2>11. At(f, n) /\ k' = k + 1
    BY <2>2, <2>5
  <2> QED BY <1>0, <2>4, <2>7, <2>9, <2>10, <2>11, RLess
<1>6. CASE newp # NULL
  <2>1. op.size # 0 /\ add_range_Accepts(Rest, newp, op.size)
        /\ Accept(Found + MoreFound(newp, bytes), newp, op.size,
                  add_range(Rest, newp, op.size, op.index), Copied(newp, bytes))
    BY <1>1, <1>2, <1>6 DEF ReallocDo
  <2>2. op.size > 0 /\ newp \in Int
    BY <1>3, <1>6, <2>1, DriverAssumption
  <2> QED BY <1>0, <1>3, <1>4, <2>1, <2>2, RAdd
<1> QED BY <1>5, <1>6

\* mm_free's request.
LEMMA RFree == TInv /\ RInv /\ FREE => RInv'
<1> SUFFICES ASSUME TInv, RInv, FREE PROVE RInv'
  OBVIOUS
<1>0. pc = "check" /\ k =< trace.num_ops /\ op.type = "f" /\ ValidFrame /\ k' = k + 1
      /\ UNCHANGED <<blocks, block_sizes, block_rand_base>>
  BY DEF FREE, Request, arrays
<1>1. PICK f, n : At(f, n) /\ k - 1 = n /\ op = f.ops[n + 1]
  BY <1>0, AtRequest
<1>2. PICK b, z, d : b = blocks /\ z = block_sizes /\ d = block_rand_base /\ Records(f, n, b, z, d)
  BY <1>0, <1>1 DEF RInv, At
<1>3. f.ops[n + 1].type = "f"
  BY <1>0, <1>1
<1>4. Records(f, n + 1, b, z, d)
  BY <1>1, <1>2, <1>3, RecordsFree DEF At
<1>5. Held(f, n + 1) = Held(f, n) \ {op.index}
  BY <1>1, <1>3, HeldStep DEF At
<1>6. RangesAre(Held(f, n + 1), blocks, block_sizes, ranges')
  <2>1. CASE op.index = -1
    <3>1. ranges' = ranges
      BY <2>1 DEF FREE
    <3>2. -1 \notin Held(f, n)
      <4>1. \A y \in Ids(f) : y # -1
        BY <1>1, TraceIs DEF Ids, At
      <4> QED BY <4>1 DEF Held
    <3>3. Held(f, n + 1) = Held(f, n)
      BY <1>5, <2>1, <3>2
    <3> QED BY <1>0, <1>1, <3>1, <3>3 DEF RInv, At
  <2>2. CASE op.index # -1
    <3>1. ranges' = Rest
      BY <2>2 DEF FREE, Rest
    <3>2. op.index \in Ids(trace) /\ op.type # "a"
      BY <1>0, <2>2, OpHere
    <3>3. RangesAre(Held(trace, k - 1) \ {op.index}, blocks, block_sizes, Rest)
      BY <1>0, <3>2, RRest
    <3> QED BY <1>1, <1>5, <3>1, <3>3 DEF At
  <2> QED BY <2>1, <2>2
<1>7. b = blocks' /\ z = block_sizes' /\ d = block_rand_base'
      /\ \A y \in Held(f, n + 1) : b[y] = blocks[y] /\ z[y] = block_sizes[y]
  BY <1>0, <1>2
<1> QED BY <1>0, <1>1, <1>4, <1>6, <1>7, RLess

\* Every step keeps the records and the range list true to the trace.
LEMMA RStep == TInv /\ RInv /\ [Next]_vars => RInv'
<1> SUFFICES ASSUME TInv, RInv, [Next]_vars PROVE RInv'
  OBVIOUS
<1>1. CASE UNCHANGED vars
  <2>1. UNCHANGED <<pc, k, blocks, block_sizes, block_rand_base, ranges, opt>> /\ trace' = trace
    BY <1>1 DEF vars, dvars, arrays, checker, trace
  <2> QED BY <2>1 DEF RInv, RangesAre, NoRanges
<1>2. ASSUME pc' # "check" PROVE RInv'
  BY <1>2 DEF RInv
<1>3. read_trace => pc' # "check"
  BY DEF read_trace
<1>4. eval_libc_valid => pc' # "check"
  BY DEF eval_libc_valid
<1>5. free_trace => pc' # "check"
  BY DEF free_trace
<1>6. Judged => pc' # "check"
  BY DEF Judged
<1>7. MeasureSpace => pc' # "check"
  BY DEF MeasureSpace
<1>8. Measured \/ Timed => pc' # "check"
  BY DEF Measured, Timed
<1>9. TimeRun \/ ReplayFails \/ Report => pc' # "check"
  BY DEF TimeRun, ReplayFails, Report
<1>10. Hang \/ timeout_handler => pc' # "check"
  BY DEF Hang, timeout_handler
<1> QED BY <1>1, <1>2, <1>3, <1>4, <1>5, <1>6, <1>7, <1>8, <1>9, <1>10, RStart, RAlloc, RRealloc, RFree
        DEF Next, Step

-----------------------------------------------------------------------------
(* What the random data shows. *)

\* Some byte of a block does not hold the data of its base.
Spoilt(m, lo, size, base) == \E j \in 0 .. size - 1 : m[lo + j] # Datum(base, j)
SpoiltBlock(x) == Spoilt(mem, blocks[x], block_sizes[x], block_rand_base[x])

\* check_index finds at most one error, and one if the data is spoilt.
LEMMA CheckIs ==
  ASSUME NEW m, NEW lo, NEW size, NEW base
  PROVE  /\ check_index(m, lo, size, base) \in {0, 1}
         /\ check_index(m, lo, size, base) = 1 <=> (opt.debug # 0 /\ Spoilt(m, lo, size, base))
BY DEF check_index, Spoilt

\* What DBG_EXPENSIVE finds is in a block that is live.
LEMMA ExpensiveIs ==
  ASSUME TInv, RInv, pc = "check"
  PROVE  /\ Expensive \in Nat
         /\ Expensive > 0 => opt.debug # 0 /\ \E y \in Live : SpoiltBlock(y)
<1>1. CASE opt.debug # 2
  BY <1>1 DEF Expensive
<1>2. CASE opt.debug = 2
  <2> DEFINE S == {n \in DOMAIN ranges :
            LET x == ranges[n].index
            IN check_index(mem, blocks[x], block_sizes[x], block_rand_base[x]) = 1}
  <2>1. Expensive = Cardinality(S)
    BY <1>2 DEF Expensive
  <2>2. DOMAIN ranges = 1..Len(ranges) /\ Len(ranges) \in Nat
        /\ \A n \in DOMAIN ranges : ranges[n].index \in Live
    <3>1. CASE NoRanges
      <4>1. ranges = <<>>
        BY <3>1 DEF RInv, RangesAre
      <4> QED BY <4>1
    <3>2. CASE ~NoRanges
      <4>1. Lists(Live, blocks, block_sizes, ranges)
        BY <3>2, LiveIsHeld DEF RInv, RangesAre
      <4> QED BY <4>1, SeqIs DEF Lists, Entry
    <3> QED BY <3>1, <3>2
  <2>3. IsFiniteSet(DOMAIN ranges)
    BY <2>2, FS_Interval
  <2>4. S \subseteq DOMAIN ranges
    OBVIOUS
  <2>5. \A n \in S : SpoiltBlock(ranges[n].index)
    BY CheckIs DEF SpoiltBlock
  <2> HIDE DEF S
  <2>6. IsFiniteSet(S)
    BY <2>3, <2>4, FS_Subset
  <2>7. Cardinality(S) \in Nat
    BY <2>6, FS_CardinalityType
  <2>8. Cardinality(S) > 0 => S # {}
    BY FS_EmptySet
  <2> QED BY <1>2, <2>1, <2>2, <2>4, <2>5, <2>7, <2>8
<1> QED BY <1>1, <1>2

\* The heap m2 after a request: new data of base K in new, junk in bytes, the rest as in m.
Overlay(m, m2, new, bytes, K) ==
  \A a \in Heap : IF a \in new THEN \E j : m2[a] = Datum(K, j)
                  ELSE m2[a] = IF a \in bytes THEN Junk ELSE m[a]

\* What the data of a block of an older base shows of such a change.
Shows(m, m2, new, bytes, lo, size, base) ==
  /\ (lo .. lo + size - 1) \cap new = {} /\ (lo .. lo + size - 1) \cap bytes = {} =>
       (Spoilt(m2, lo, size, base) <=> Spoilt(m, lo, size, base))
  /\ (lo .. lo + size - 1) \cap new # {} => Spoilt(m2, lo, size, base)
  /\ (lo .. lo + size - 1) \cap bytes # {} => Spoilt(m2, lo, size, base)
  /\ Spoilt(m, lo, size, base) => Spoilt(m2, lo, size, base)

\* Data that is overwritten in any byte is spoilt for good: no two fills agree.
LEMMA OverlayShows ==
  ASSUME NEW m, NEW m2, NEW new, NEW bytes, NEW K \in Nat, Overlay(m, m2, new, bytes, K),
         NEW lo \in Int, NEW size \in Nat, lo .. lo + size - 1 \subseteq Heap, NEW base \in 1 .. K - 1
  PROVE  Shows(m, m2, new, bytes, lo, size, base)
<1>1. \A j \in 0 .. size - 1 : lo + j \in lo .. lo + size - 1 /\ lo + j \in Heap
  <2> SUFFICES ASSUME NEW j \in 0 .. size - 1 PROVE lo + j \in lo .. lo + size - 1
    OBVIOUS
  <2> QED OBVIOUS
<1>2. \A a \in lo .. lo + size - 1 : a - lo \in 0 .. size - 1 /\ lo + (a - lo) = a
  OBVIOUS
<1>3. \A a \in Heap : a \in new => \A j : m2[a] # Datum(base, j)
  BY DEF Overlay, Datum
<1>4. \A a \in Heap : a \in bytes => \A j : m2[a] # Datum(base, j)
  BY DEF Overlay, Datum, Junk
<1>5. \A a \in Heap : a \notin new /\ a \notin bytes => m2[a] = m[a]
  BY DEF Overlay
<1>6. ASSUME NEW a \in lo .. lo + size - 1, a \in new \/ a \in bytes
      PROVE  Spoilt(m2, lo, size, base)
  <2>1. a \in Heap /\ m2[a] # Datum(base, a - lo)
    BY <1>3, <1>4, <1>6
  <2> QED BY <1>2, <2>1 DEF Spoilt
<1>7. ASSUME (lo .. lo + size - 1) \cap new = {}, (lo .. lo + size - 1) \cap bytes = {}
      PROVE  Spoilt(m2, lo, size, base) <=> Spoilt(m, lo, size, base)
  <2>1. \A j \in 0 .. size - 1 : m2[lo + j] = m[lo + j]
    BY <1>1, <1>5, <1>7
  <2> QED BY <2>1 DEF Spoilt
<1>8. (lo .. lo + size - 1) \cap new # {} => Spoilt(m2, lo, size, base)
  BY <1>6
<1>9. (lo .. lo + size - 1) \cap bytes # {} => Spoilt(m2, lo, size, base)
  BY <1>6
<1> QED BY <1>7, <1>8, <1>9 DEF Shows

AllBalanced == opt.debug # 0 /\ \A t \in DOMAIN files : Balanced(files[t])
VInv ==
  /\ errors \in Nat /\ mem \in [Heap -> Nat \X Nat]
  /\ errors > 0 => faulty
  /\ pc = "check" /\ opt.debug # 0 /\ ~faulty => \A x \in Live : ~SpoiltBlock(x)
  /\ pc = "check" /\ AllBalanced /\ faulty => errors > 0 \/ \E x \in Live : SpoiltBlock(x)
  /\ pc \notin {"check", "hang", "exit"} /\ AllBalanced /\ faulty => errors > 0

\* The payload of a block that is not that of the request, before it.
LEMMA Others ==
  ASSUME TInv, RInv, pc = "check", k =< trace.num_ops, NEW y \in Live
  PROVE  /\ y \in Ids(trace) /\ blocks[y] \in Int /\ block_sizes[y] \in Nat /\ block_sizes[y] > 0
         /\ Payload(y) \subseteq Heap
         /\ block_rand_base[y] \in 1 .. k - 1
<1>1. PICK f, n : At(f, n) /\ k - 1 = n /\ op = f.ops[n + 1]
  BY AtRequest
<1>2. PICK b, z, d : b = blocks /\ z = block_sizes /\ d = block_rand_base /\ Records(f, n, b, z, d)
  BY <1>1 DEF RInv, At
<1>3. y \in Held(f, n)
  BY <1>1, LiveIsHeld DEF At
<1>4. n \in 0..f.num_ops /\ f \in Trace /\ Readable(f)
  BY <1>1, TraceIs DEF At
<1>5. /\ y \in Ids(f) /\ b[y] \in Int /\ z[y] \in Nat /\ z[y] > 0
      /\ b[y] \in Heap /\ b[y] + z[y] - 1 \in Heap /\ d[y] \in 1..n
  BY <1>2, <1>3, <1>4, LiveBlocks
<1>6. b[y] .. b[y] + z[y] - 1 \subseteq Heap
  <2>1. \A p, q : p \in Heap /\ q \in Heap => p .. q \subseteq Heap
    <3>1. PICK H \in Nat : Heap = 0 .. H - 1
      BY DriverAssumption DEF Heap
    <3> QED BY <3>1
  <2> QED BY <1>5, <2>1
<1> QED BY <1>1, <1>2, <1>5, <1>6 DEF Payload, At

\* A request that is over, on x: it has found e errors, the package has misbehaved if F, and
\* the heap has new data in new and junk in bytes.
Goes(x, e, F, new, bytes) ==
  /\ x = op.index
  /\ \A y \in Live \ {x} : /\ blocks'[y] = blocks[y] /\ block_sizes'[y] = block_sizes[y]
                           /\ block_rand_base'[y] = block_rand_base[y]
  /\ errors' = errors + e /\ faulty' = (faulty \/ F)
  /\ mem' \in [Heap -> Nat \X Nat]
  /\ opt.debug # 0 => Overlay(mem, mem', new, bytes, k)
  /\ opt.debug # 0 /\ x \in Live' => ~SpoiltBlock(x)'
  /\ e > 0 => faulty \/ F
  /\ ~F => \A y \in Live \ {x} : Payload(y) \cap new = {} /\ Payload(y) \cap bytes = {}
  /\ opt.debug # 0 /\ F => e > 0 \/ \E y \in Live \ {x} : Payload(y) \cap new # {} \/ Payload(y) \cap bytes # {}
  /\ opt.debug # 0 /\ x \in Live /\ SpoiltBlock(x) => e > 0

\* Then the verdict is right after it: what has been spoilt is counted or can still be seen.
LEMMA VGo ==
  ASSUME TInv, RInv, VInv, pc = "check", k =< trace.num_ops, ValidFrame,
         pc' = "check", k' = k + 1,
         NEW x, NEW e \in Nat, NEW F \in BOOLEAN, NEW new, NEW bytes, Goes(x, e, F, new, bytes)
  PROVE  VInv'
<1>0. /\ x = op.index
      /\ \A y \in Live \ {x} : /\ blocks'[y] = blocks[y] /\ block_sizes'[y] = block_sizes[y]
                               /\ block_rand_base'[y] = block_rand_base[y]
      /\ errors' = errors + e /\ faulty' = (faulty \/ F)
      /\ mem' \in [Heap -> Nat \X Nat]
      /\ opt.debug # 0 => Overlay(mem, mem', new, bytes, k)
      /\ opt.debug # 0 /\ x \in Live' => ~SpoiltBlock(x)'
      /\ e > 0 => faulty \/ F
      /\ ~F => \A y \in Live \ {x} : Payload(y) \cap new = {} /\ Payload(y) \cap bytes = {}
      /\ opt.debug # 0 /\ F => e > 0 \/ \E y \in Live \ {x} : Payload(y) \cap new # {} \/ Payload(y) \cap bytes # {}
      /\ opt.debug # 0 /\ x \in Live /\ SpoiltBlock(x) => e > 0
  BY Zenon DEF Goes
<1> USE <1>0
<1>1. PICK f, n : At(f, n) /\ k - 1 = n /\ op = f.ops[n + 1]
  BY AtRequest
<1>2. trace' = f /\ k' - 1 = n + 1 /\ opt' = opt /\ files' = files
  BY <1>1, FrameHere, TraceHere DEF At, ValidFrame
<1>3. \A y : y # x => (y \in Live <=> y \in Live')
  <2>1. \A y : y # x => Holds(f, n + 1, y) = Holds(f, n, y)
    BY <1>1, HoldsStep DEF At
  <2>2. Live' = {y \in Ids(f) : Holds(f, n + 1, y) > 0} /\ Live = {y \in Ids(f) : Holds(f, n, y) > 0}
    BY <1>1, <1>2 DEF Live, At
  <2> QED BY <2>1, <2>2
<1>4. ASSUME opt.debug # 0, NEW y \in Live, y # x
      PROVE  /\ Payload(y) \cap new = {} /\ Payload(y) \cap bytes = {} => (SpoiltBlock(y)' <=> SpoiltBlock(y))
             /\ Payload(y) \cap new # {} \/ Payload(y) \cap bytes # {} => SpoiltBlock(y)'
             /\ SpoiltBlock(y) => SpoiltBlock(y)'
  <2>1. PICK lo \in Int, size \in Nat, base \in 1 .. k - 1 :
          /\ lo = blocks[y] /\ size = block_sizes[y] /\ base = block_rand_base[y]
          /\ lo .. lo + size - 1 \subseteq Heap /\ Payload(y) = lo .. lo + size - 1
    BY Others DEF Payload
  <2>2. SpoiltBlock(y) <=> Spoilt(mem, lo, size, base)
    BY <2>1 DEF SpoiltBlock
  <2>3. SpoiltBlock(y)' <=> Spoilt(mem', lo, size, base)
    BY <1>4, <2>1 DEF SpoiltBlock
  <2>4. k \in Nat /\ Overlay(mem, mem', new, bytes, k)
    BY <1>4, TraceHere
  <2>5. /\ (lo .. lo + size - 1) \cap new = {} /\ (lo .. lo + size - 1) \cap bytes = {} =>
              (Spoilt(mem', lo, size, base) <=> Spoilt(mem, lo, size, base))
        /\ (lo .. lo + size - 1) \cap new # {} => Spoilt(mem', lo, size, base)
        /\ (lo .. lo + size - 1) \cap bytes # {} => Spoilt(mem', lo, size, base)
        /\ Spoilt(mem, lo, size, base) => Spoilt(mem', lo, size, base)
    <3>0. PICK m, m2 : m = mem /\ m2 = mem'
      OBVIOUS
    <3>1. PICK K \in Nat : K = k
      BY <2>4
    <3>2. Overlay(m, m2, new, bytes, K) /\ base \in 1 .. K - 1
      BY <2>4, <3>0, <3>1
    <3>3. Shows(m, m2, new, bytes, lo, size, base)
      BY <2>1, <3>2, OverlayShows
    <3> QED BY <3>0, <3>3 DEF Shows
  <2> QED BY <2>1, <2>2, <2>3, <2>5
<1>5. errors' \in Nat /\ (errors' > 0 => errors > 0 \/ e > 0) /\ (errors > 0 \/ e > 0 => errors' > 0)
  BY DEF VInv
<1>6. errors' > 0 => faulty'
  BY <1>5 DEF VInv
<1>7. ASSUME opt.debug # 0, ~faulty', NEW y \in Live' PROVE ~SpoiltBlock(y)'
  <2>1. ~faulty /\ ~F
    BY <1>7
  <2>2. CASE y = x
    BY <1>7, <2>2
  <2>3. CASE y # x
    <3>1. y \in Live /\ ~SpoiltBlock(y)
      BY <1>3, <1>7, <2>1, <2>3 DEF VInv
    <3> QED BY <1>4, <1>7, <2>1, <2>3, <3>1
  <2> QED BY <2>2, <2>3
<1>8. ASSUME AllBalanced, faulty' PROVE errors' > 0 \/ \E y \in Live' : SpoiltBlock(y)'
  <2>0. opt.debug # 0
    BY <1>8 DEF AllBalanced
  <2>1. CASE F
    BY <1>3, <1>4, <1>5, <2>0, <2>1
  <2>2. CASE faulty
    <3>1. errors > 0 \/ \E y \in Live : SpoiltBlock(y)
      BY <1>8, <2>2 DEF VInv
    <3>2. CASE errors > 0
      BY <1>5, <3>2
    <3>3. ASSUME NEW y \in Live, SpoiltBlock(y) PROVE errors' > 0 \/ \E q \in Live' : SpoiltBlock(q)'
      <4>1. CASE y = x
        BY <1>5, <2>0, <3>3, <4>1
      <4>2. CASE y # x
        BY <1>3, <1>4, <2>0, <3>3, <4>2
      <4> QED BY <4>1, <4>2
    <3> QED BY <3>1, <3>2, <3>3
  <2> QED BY <1>8, <2>1, <2>2
<1>9. AllBalanced' <=> AllBalanced
  BY <1>2 DEF AllBalanced
<1> QED BY <1>2, <1>5, <1>6, <1>7, <1>8, <1>9 DEF VInv

\* A request that the driver refuses.
LEMMA VRefuse ==
  ASSUME TInv, RInv, VInv, ValidFrame, NEW found \in Nat, NEW rs, Refuse(found, rs), faulty'
  PROVE  VInv'
<1>1. errors' \in Nat /\ errors' > 0 /\ pc' = "free" /\ mem' = mem
  BY DEF Refuse, VInv, checker
<1> QED BY <1>1 DEF VInv

\* A heap with a byte overwritten.
LEMMA Scribble ==
  ASSUME NEW m, NEW bytes
  PROVE  /\ m \in [Heap -> Nat \X Nat] => Scribbled(m, bytes) \in [Heap -> Nat \X Nat]
         /\ \A a \in Heap : Scribbled(m, bytes)[a] = IF a \in bytes THEN Junk ELSE m[a]
BY DEF Scribbled, Junk

\* randomize_block, and what it makes of a heap m that differs from the one before in bytes
\* and inside the new block.
LEMMA Randomized ==
  ASSUME TInv, NEW m \in [Heap -> Nat \X Nat], NEW lo \in Int, NEW size \in Nat, size > 0,
         NEW bytes, NEW m2, m2 = randomize_block(m, lo, size),
         \A a \in Heap \ (lo .. lo + size - 1) : m[a] = IF a \in bytes THEN Junk ELSE mem[a]
  PROVE  /\ m2 \in [Heap -> Nat \X Nat]
         /\ opt.debug # 0 => Overlay(mem, m2, lo .. lo + size - 1, bytes, k)
         /\ opt.debug # 0 /\ lo .. lo + size - 1 \subseteq Heap => ~Spoilt(m2, lo, size, k)
<1>1. CASE opt.debug = 0
  BY <1>1 DEF randomize_block
<1>2. CASE opt.debug # 0
  <2>1. m2 = [a \in Heap |-> IF a \in lo .. lo + size - 1 THEN Datum(k, a - lo) ELSE m[a]]
    BY <1>2 DEF randomize_block
  <2>2. k \in Nat
    BY TraceHere
  <2>4. m2 \in [Heap -> Nat \X Nat]
    <3>1. ASSUME NEW a \in Heap
          PROVE  (IF a \in lo .. lo + size - 1 THEN Datum(k, a - lo) ELSE m[a]) \in Nat \X Nat
      <4>1. CASE a \in lo .. lo + size - 1
        <5>1. Datum(k, a - lo) \in Nat \X Nat
          BY <4>1, <2>2 DEF Datum
        <5> QED BY <4>1, <5>1
      <4>2. CASE a \notin lo .. lo + size - 1
        BY <4>2
      <4> QED BY <4>1, <4>2
    <3> QED BY <2>1, <3>1
  <2>5. Overlay(mem, m2, lo .. lo + size - 1, bytes, k)
    BY <2>1 DEF Overlay
  <2>6. ASSUME lo .. lo + size - 1 \subseteq Heap, NEW j \in 0 .. size - 1 PROVE m2[lo + j] = Datum(k, j)
    <3>1. lo + j \in lo .. lo + size - 1 /\ lo + j - lo = j
      OBVIOUS
    <3> QED BY <2>1, <2>6, <3>1
  <2> QED BY <2>4, <2>5, <2>6 DEF Spoilt
<1> QED BY <1>1, <1>2

\* Both ends in the heap: all of it.
LEMMA InsideIs ==
  ASSUME NEW lo \in Int, NEW size \in Nat, size > 0
  PROVE  Inside(lo, lo + size - 1) <=> lo .. lo + size - 1 \subseteq Heap
<1>1. PICK H \in Nat : Heap = 0 .. H - 1
  BY DriverAssumption DEF Heap
<1>2. lo \in lo .. lo + size - 1 /\ lo + size - 1 \in lo .. lo + size - 1
  OBVIOUS
<1> QED BY <1>1, <1>2 DEF Inside

\* add_range refuses only what is misplaced.
LEMMA Refused ==
  ASSUME TInv, NEW H, NEW rs, RangesAre(H, blocks, block_sizes, rs), NEW lo \in Int, NEW size \in Nat, size > 0,
         \A y \in H : blocks[y] \in Int /\ block_sizes[y] \in Nat,
         ~add_range_Accepts(rs, lo, size)
  PROVE  Misplaced(lo, size, H)
<1>0. PICK hi \in Int : hi = lo + size - 1 /\ lo =< hi
  OBVIOUS
<1>1. CASE ~IS_ALIGNED(lo)
  BY <1>1 DEF Misplaced
<1>2. CASE ~Inside(lo, hi)
  BY <1>0, <1>2, InsideIs DEF Misplaced
<1>3. CASE ~NoRanges /\ \E n \in DOMAIN rs : Overlaps(lo, hi, rs[n])
  <2>1. PICK n \in DOMAIN rs : Overlaps(lo, hi, rs[n])
    BY <1>3
  <2>2. n \in 1..Len(rs) /\ Lists(H, blocks, block_sizes, rs)
    BY <1>3, SeqIs DEF RangesAre, Lists
  <2>3. PICK y \in H : Entry(blocks, block_sizes, rs[n], y)
    BY <2>2 DEF Lists
  <2>4. lo \in Payload(y) \/ hi \in Payload(y)
    BY <1>0, <2>1, <2>3 DEF Entry, Overlaps, Payload
  <2>5. lo \in lo .. lo + size - 1 /\ hi \in lo .. lo + size - 1
    BY <1>0
  <2>6. (lo .. lo + size - 1) \cap Taken(H) # {}
    BY <2>4, <2>5 DEF Taken
  <2> QED BY <2>6 DEF Misplaced
<1> QED BY <1>0, <1>1, <1>2, <1>3 DEF add_range_Accepts

\* What add_range accepts is misplaced only if it overlaps.
LEMMA MisplacedIs ==
  ASSUME NEW rs, NEW lo \in Int, NEW size \in Nat, size > 0, add_range_Accepts(rs, lo, size), NEW H
  PROVE  /\ lo .. lo + size - 1 \subseteq Heap
         /\ Misplaced(lo, size, H) <=> \E y \in H : Payload(y) \cap (lo .. lo + size - 1) # {}
<1>1. IS_ALIGNED(lo) /\ lo .. lo + size - 1 \subseteq Heap
  BY AcceptedInside, InsideIs
<1>2. PICK S : S = lo .. lo + size - 1
  OBVIOUS
<1>3. S \cap Taken(H) # {} <=> \E y \in H : Payload(y) \cap S # {}
  BY DEF Taken
<1>4. Misplaced(lo, size, H) <=> S \cap Taken(H) # {}
  BY <1>1, <1>2 DEF Misplaced
<1> QED BY <1>1, <1>2, <1>3, <1>4

\* A new block at lo, with the records rs, in a heap m that is the old one but for bytes and
\* the block itself, where F is whether the package misbehaves now: errors have been found
\* only for faults, what lies over or spoils other blocks is a fault, and a fault has been
\* found or will be seen in another block.
Acceptable(lo, found, rs, m, bytes, F) ==
  /\ lo \in Int /\ op.size > 0 /\ lo .. lo + op.size - 1 \subseteq Heap
  /\ found \in Nat /\ m \in [Heap -> Nat \X Nat] /\ Accept(found, lo, op.size, rs, m)
  /\ \A a \in Heap \ (lo .. lo + op.size - 1) : m[a] = IF a \in bytes THEN Junk ELSE mem[a]
  /\ F \in BOOLEAN /\ faulty' = (faulty \/ F)
  /\ found > 0 => faulty \/ F
  /\ (\E y \in Live \ {op.index} : Payload(y) \cap (lo .. lo + op.size - 1) # {}) => F
  /\ (\E y \in Live \ {op.index} : Payload(y) \cap bytes # {}) => F
  /\ opt.debug # 0 /\ F => \/ found > 0
                           \/ \E y \in Live \ {op.index} : Payload(y) \cap (lo .. lo + op.size - 1) # {}
                           \/ \E y \in Live \ {op.index} : Payload(y) \cap bytes # {}
  /\ opt.debug # 0 /\ op.index \in Live /\ SpoiltBlock(op.index) => found > 0

\* Accept, of a block that add_range has accepted.
LEMMA VAccept ==
  ASSUME TInv, RInv, VInv, pc = "check", k =< trace.num_ops, op.type # "f", ValidFrame,
         NEW lo, NEW found, NEW rs, NEW m, NEW bytes, NEW F, Acceptable(lo, found, rs, m, bytes, F)
  PROVE  VInv'
<1> SUFFICES
  ASSUME lo \in Int, op.size > 0, lo .. lo + op.size - 1 \subseteq Heap,
         found \in Nat, m \in [Heap -> Nat \X Nat], Accept(found, lo, op.size, rs, m),
         \A a \in Heap \ (lo .. lo + op.size - 1) : m[a] = IF a \in bytes THEN Junk ELSE mem[a],
         F \in BOOLEAN, faulty' = (faulty \/ F),
         found > 0 => faulty \/ F,
         (\E y \in Live \ {op.index} : Payload(y) \cap (lo .. lo + op.size - 1) # {}) => F,
         (\E y \in Live \ {op.index} : Payload(y) \cap bytes # {}) => F,
         opt.debug # 0 /\ F => \/ found > 0
                               \/ \E y \in Live \ {op.index} : Payload(y) \cap (lo .. lo + op.size - 1) # {}
                               \/ \E y \in Live \ {op.index} : Payload(y) \cap bytes # {},
         opt.debug # 0 /\ op.index \in Live /\ SpoiltBlock(op.index) => found > 0
  PROVE  VInv'
  BY Zenon DEF Acceptable
<1>1. op.index \in Ids(trace) /\ op.size \in Nat
  BY OpHere
<1>2. PICK x \in Ids(trace), size \in Nat : x = op.index /\ size = op.size /\ size > 0
  BY <1>1
<1>3. Tables(trace, blocks, block_sizes, block_rand_base)
  BY DEF TInv, Running
<1>4. /\ blocks' = [blocks EXCEPT ![x] = lo] /\ block_sizes' = [block_sizes EXCEPT ![x] = size]
      /\ block_rand_base' = [block_rand_base EXCEPT ![x] = k]
      /\ mem' = randomize_block(m, lo, size) /\ k' = k + 1 /\ pc' = "check" /\ errors' = errors + found
  BY <1>2 DEF Accept
<1>5. blocks'[x] = lo /\ block_sizes'[x] = size /\ block_rand_base'[x] = k
  BY <1>2, <1>3, <1>4 DEF Tables
<1>6. \A y \in Live \ {x} : /\ blocks'[y] = blocks[y] /\ block_sizes'[y] = block_sizes[y]
                            /\ block_rand_base'[y] = block_rand_base[y]
  BY <1>2, <1>3, <1>4 DEF Tables, Live
<1>7. PICK m2 : m2 = mem'
  OBVIOUS
<1>8. /\ m2 \in [Heap -> Nat \X Nat]
      /\ opt.debug # 0 => Overlay(mem, m2, lo .. lo + size - 1, bytes, k)
      /\ opt.debug # 0 /\ lo .. lo + size - 1 \subseteq Heap => ~Spoilt(m2, lo, size, k)
  BY <1>2, <1>4, <1>7, Randomized
<1>9. PICK new : new = lo .. lo + size - 1
  OBVIOUS
<1>10. opt.debug # 0 => ~SpoiltBlock(x)'
  BY <1>2, <1>5, <1>7, <1>8 DEF SpoiltBlock
<1>11. ~F => \A y \in Live \ {x} : Payload(y) \cap new = {} /\ Payload(y) \cap bytes = {}
  BY <1>2, <1>9
<1>12. opt.debug # 0 /\ F => found > 0 \/ \E y \in Live \ {x} : Payload(y) \cap new # {} \/ Payload(y) \cap bytes # {}
  BY <1>2, <1>9
<1>13. mem' \in [Heap -> Nat \X Nat] /\ (opt.debug # 0 => Overlay(mem, mem', new, bytes, k))
  BY <1>7, <1>8, <1>9
<1>14. opt.debug # 0 /\ x \in Live /\ SpoiltBlock(x) => found > 0
  BY <1>2
<1>15. opt.debug # 0 /\ x \in Live' => ~SpoiltBlock(x)'
  BY <1>10
<1>16. pc' = "check" /\ k' = k + 1 /\ errors' = errors + found /\ x = op.index
  BY <1>2, <1>4
<1>18. opt.debug # 0 => Overlay(mem, mem', new, bytes, k)
  BY <1>13
<1>19. found > 0 => faulty \/ F
  OBVIOUS
<1>20. faulty' = (faulty \/ F)
  OBVIOUS
<1>21. Goes(x, found, F, new, bytes)
  BY Zenon, <1>6, <1>11, <1>12, <1>13, <1>14, <1>15, <1>16, <1>18, <1>19, <1>20 DEF Goes
<1> QED BY <1>16, <1>21, VGo

\* The errors that a request finds are of a package that has misbehaved.
LEMMA FoundIs ==
  ASSUME TInv, RInv, VInv, pc = "check"
  PROVE  Expensive \in Nat /\ (Expensive > 0 => faulty)
BY ExpensiveIs DEF VInv

\* mm_malloc's request.
LEMMA VAlloc == TInv /\ RInv /\ VInv /\ ALLOC => VInv'
<1> SUFFICES ASSUME TInv, RInv, VInv, ALLOC PROVE VInv'
  OBVIOUS
<1>0. pc = "check" /\ k =< trace.num_ops /\ op.type = "a" /\ ValidFrame
  BY DEF ALLOC, Request
<1>1. PICK p \in Addresses \cup {NULL}, bytes \in Scribbles :
         /\ faulty' = (faulty \/ p = NULL \/ Misplaced(p, op.size, Live)
                              \/ bytes \cap Taken(Live) # {})
         /\ IF p = NULL THEN Refuse(Expensive, ranges)
            ELSE IF op.size = 0
              THEN pc' = "exit" /\ UNCHANGED <<k, errors, arrays, checker>>
            ELSE IF ~add_range_Accepts(ranges, p, op.size) THEN Refuse(Expensive, ranges)
            ELSE Accept(Expensive, p, op.size, add_range(ranges, p, op.size, op.index),
                        Scribbled(mem, bytes))
  BY Zenon DEF ALLOC
<1>2. Expensive \in Nat /\ (Expensive > 0 => faulty)
  BY <1>0, FoundIs
<1>3. op.size \in Nat /\ op.index \notin Live
  BY <1>0, OpHere DEF Live
<1>4. CASE p = NULL
  BY <1>0, <1>1, <1>2, <1>4, VRefuse
<1>5. CASE p # NULL /\ op.size = 0
  BY <1>1, <1>5 DEF VInv, checker
<1>6. CASE p # NULL /\ op.size # 0 /\ ~add_range_Accepts(ranges, p, op.size)
  <2>1. p \in Int /\ op.size > 0
    BY <1>3, <1>6, DriverAssumption
  <2>2. \A y \in Live : blocks[y] \in Int /\ block_sizes[y] \in Nat
    BY <1>0, Others
  <2>3. RangesAre(Live, blocks, block_sizes, ranges)
    BY <1>0, LiveIsHeld DEF RInv
  <2>4. Misplaced(p, op.size, Live)
    BY <1>3, <1>6, <2>1, <2>2, <2>3, Refused
  <2>5. faulty' /\ Refuse(Expensive, ranges)
    BY <1>1, <1>6, <2>4
  <2> QED BY <1>0, <1>2, <2>5, VRefuse
<1>7. CASE p # NULL /\ op.size # 0 /\ add_range_Accepts(ranges, p, op.size)
  <2>1. p \in Int /\ op.size > 0
    BY <1>3, <1>7, DriverAssumption
  <2>2. PICK F \in BOOLEAN : F <=> (Misplaced(p, op.size, Live) \/ bytes \cap Taken(Live) # {})
    OBVIOUS
  <2>3. faulty' = (faulty \/ F)
    BY <1>1, <1>7, <2>2
  <2>4. /\ p .. p + op.size - 1 \subseteq Heap
        /\ Misplaced(p, op.size, Live) <=> \E y \in Live : Payload(y) \cap (p .. p + op.size - 1) # {}
    <3>1. PICK size \in Nat : size = op.size
      BY <1>3
    <3>2. /\ p .. p + size - 1 \subseteq Heap
          /\ Misplaced(p, size, Live) <=> \E y \in Live : Payload(y) \cap (p .. p + size - 1) # {}
      BY <1>7, <2>1, <3>1, MisplacedIs
    <3>3. op.size = size
      BY <3>1
    <3> QED BY <3>2, <3>3, Zenon
  <2>5. bytes \cap Taken(Live) # {} <=> \E y \in Live : Payload(y) \cap bytes # {}
    BY DEF Taken
  <2>6. Live \ {op.index} = Live
    BY <1>3
  <2>7. PICK m : m = Scribbled(mem, bytes)
    OBVIOUS
  <2>8. m \in [Heap -> Nat \X Nat] /\ \A a \in Heap : m[a] = IF a \in bytes THEN Junk ELSE mem[a]
    BY <2>7, Scribble DEF VInv
  <2>9. PICK rs : rs = add_range(ranges, p, op.size, op.index)
    OBVIOUS
  <2>10. Accept(Expensive, p, op.size, rs, m)
    BY <1>1, <1>7, <2>7, <2>9
  <2>11. Expensive > 0 => faulty \/ F
    BY <1>2
  <2>12. (\E y \in Live \ {op.index} : Payload(y) \cap (p .. p + op.size - 1) # {}) => F
    BY <2>2, <2>4, <2>6
  <2>13. (\E y \in Live \ {op.index} : Payload(y) \cap bytes # {}) => F
    BY <2>2, <2>5, <2>6
  <2>14. opt.debug # 0 /\ F => \/ Expensive > 0
                               \/ \E y \in Live \ {op.index} : Payload(y) \cap (p .. p + op.size - 1) # {}
                               \/ \E y \in Live \ {op.index} : Payload(y) \cap bytes # {}
    BY <2>2, <2>4, <2>5, <2>6
  <2>15. opt.debug # 0 /\ op.index \in Live /\ SpoiltBlock(op.index) => Expensive > 0
    BY <1>3
  <2>16. op.type # "f" /\ \A a \in Heap \ (p .. p + op.size - 1) : m[a] = IF a \in bytes THEN Junk ELSE mem[a]
    BY <1>0, <2>8
  <2>17. Acceptable(p, Expensive, rs, m, bytes, F)
    BY <1>2, <2>1, <2>3, <2>4, <2>8, <2>10, <2>11, <2>12, <2>13, <2>14, <2>15, <2>16 DEF Acceptable
  <2> QED BY <1>0, <2>16, <2>17, VAccept, Zenon
<1> QED BY <1>4, <1>5, <1>6, <1>7

\* A request names a block that the trace owns, or one that has no size.
LEMMA BlockIs ==
  ASSUME TInv, RInv, pc = "check", k =< trace.num_ops, op.index \in Ids(trace), op.type # "a"
  PROVE  /\ block_sizes[op.index] \in Nat
         /\ op.index \notin Live => block_sizes[op.index] = 0
<1>1. PICK f, n : At(f, n) /\ k - 1 = n /\ op = f.ops[n + 1]
  BY AtRequest
<1>2. PICK x \in Ids(f) : x = op.index /\ f.ops[n + 1].index = x
  BY <1>1 DEF At
<1>3. PICK b, z, d : b = blocks /\ z = block_sizes /\ d = block_rand_base /\ Records(f, n, b, z, d)
  BY <1>1 DEF RInv, At
<1>4. ~Freed(f, n, x)
  BY <1>1, <1>2, OpHere DEF At
<1>5. x \in Live <=> Holds(f, n, x) > 0
  BY <1>1, <1>2 DEF Live, At
<1>6. Recorded(f, n, b, z, d, x) /\ z[x] \in Nat
  BY <1>3 DEF Records, Tables
<1>7. x \notin Live => z[x] = 0
  BY <1>4, <1>5, <1>6 DEF Recorded
<1> QED BY <1>2, <1>3, <1>6, <1>7

\* What check_index finds in the request's own block.
OwnFound == check_index(mem, blocks[op.index], block_sizes[op.index], block_rand_base[op.index])

\* check_index on the block of the request itself.
LEMMA OwnFoundIs ==
  ASSUME TInv, RInv, VInv, pc = "check", k =< trace.num_ops, op.index \in Ids(trace), op.type # "a"
  PROVE  /\ OwnFound \in {0, 1} /\ (OwnFound = 1 => faulty)
         /\ opt.debug # 0 /\ SpoiltBlock(op.index) => OwnFound = 1
<1>1. OwnFound \in {0, 1} /\ (OwnFound = 1 <=> (opt.debug # 0 /\ SpoiltBlock(op.index)))
  BY CheckIs DEF OwnFound, SpoiltBlock
<1>2. op.index \notin Live => ~SpoiltBlock(op.index)
  <2>1. op.index \notin Live => block_sizes[op.index] = 0
    BY BlockIs
  <2>2. 0 .. 0 - 1 = {}
    OBVIOUS
  <2> QED BY <2>1, <2>2 DEF SpoiltBlock, Spoilt
<1>3. ~faulty /\ opt.debug # 0 => \A y \in Live : ~SpoiltBlock(y)
  BY DEF VInv
<1> QED BY <1>1, <1>2, <1>3

\* A block that goes: what a free and a realloc to nothing have in common.
LEMMA VGone ==
  ASSUME TInv, RInv, VInv, pc = "check", k =< trace.num_ops, ValidFrame, pc' = "check", k' = k + 1,
         op.type # "a", op.type = "f" \/ op.size = 0,
         \A y \in Live \ {op.index} : /\ blocks'[y] = blocks[y] /\ block_sizes'[y] = block_sizes[y]
                                      /\ block_rand_base'[y] = block_rand_base[y],
         NEW bytes, mem' = Scribbled(mem, bytes),
         faulty' = (faulty \/ bytes \cap Taken(Live \ {op.index}) # {}),
         NEW e \in Nat, errors' = errors + e, e > 0 => faulty,
         opt.debug # 0 /\ op.index \in Live /\ SpoiltBlock(op.index) => e > 0
  PROVE  VInv'
<1>1. PICK f, n : At(f, n) /\ k - 1 = n /\ op = f.ops[n + 1]
  BY AtRequest
<1>2. op.index \notin Live'
  <2>1. trace' = f /\ k' - 1 = n + 1
    BY <1>1, FrameHere, TraceHere DEF At
  <2>2. Held(f, n + 1) = Held(f, n) \ {f.ops[n + 1].index}
    BY <1>1, HeldStep DEF At
  <2>3. Live' = Held(f, n + 1)
    BY <2>1 DEF Live, Held
  <2> QED BY <1>1, <2>2, <2>3
<1>3. PICK F \in BOOLEAN : F <=> bytes \cap Taken(Live \ {op.index}) # {}
  OBVIOUS
<1>4. F <=> \E y \in Live \ {op.index} : Payload(y) \cap bytes # {}
  BY <1>3 DEF Taken
<1>5. mem \in [Heap -> Nat \X Nat]
  BY DEF VInv
<1>6. mem' \in [Heap -> Nat \X Nat] /\ \A a \in Heap : mem'[a] = IF a \in bytes THEN Junk ELSE mem[a]
  BY <1>5, Scribble
<1>7. Overlay(mem, mem', {}, bytes, k)
  BY <1>6 DEF Overlay
<1>8. faulty' = (faulty \/ F)
  BY <1>3
<1>9. Goes(op.index, e, F, {}, bytes)
  BY <1>2, <1>4, <1>6, <1>7, <1>8 DEF Goes
<1> QED BY <1>9, VGo

\* mm_free's request.
LEMMA VFree == TInv /\ RInv /\ VInv /\ FREE => VInv'
<1> SUFFICES ASSUME TInv, RInv, VInv, FREE PROVE VInv'
  OBVIOUS
<1>0. pc = "check" /\ k =< trace.num_ops /\ op.type = "f" /\ ValidFrame /\ k' = k + 1 /\ pc' = "check"
      /\ UNCHANGED <<blocks, block_sizes, block_rand_base>>
  BY DEF FREE, Request, arrays
<1>1. PICK bytes : faulty' = (faulty \/ bytes \cap Taken(Live \ {op.index}) # {})
                   /\ mem' = Scribbled(mem, bytes)
  BY Zenon DEF FREE
<1>2. PICK X \in Nat : X = Expensive /\ (X > 0 => faulty)
  BY <1>0, FoundIs
<1>3. PICK e \in Nat : /\ errors' = errors + e /\ (e > 0 => faulty)
                       /\ opt.debug # 0 /\ op.index \in Live /\ SpoiltBlock(op.index) => e > 0
  <2>1. CASE op.index = -1
    <3>1. errors' = errors + X
      BY <1>2, <2>1 DEF FREE
    <3>2. op.index \notin Live
      <4>1. trace.ids \in Nat
        BY TraceHere DEF Trace
      <4> QED BY <2>1, <4>1 DEF Live, Ids
    <3> QED BY <1>2, <3>1, <3>2
  <2>2. CASE op.index # -1
    <3>1. op.index \in Ids(trace) /\ op.type # "a"
      BY <1>0, <2>2, OpHere
    <3>2. errors' = errors + X + OwnFound
      BY <1>2, <2>2 DEF FREE, OwnFound
    <3>3. PICK W \in {0, 1} : W = OwnFound /\ (W = 1 => faulty)
                              /\ (opt.debug # 0 /\ SpoiltBlock(op.index) => W = 1)
      BY <1>0, <3>1, OwnFoundIs
    <3>4. PICK e \in Nat : e = X + W
      OBVIOUS
    <3>5. errors' = errors + e
      BY <3>2, <3>3, <3>4 DEF VInv
    <3> QED BY <1>2, <3>3, <3>4, <3>5
  <2> QED BY <2>1, <2>2
<1>4. op.type # "a"
  BY <1>0
<1>5. \A y \in Live \ {op.index} : /\ blocks'[y] = blocks[y] /\ block_sizes'[y] = block_sizes[y]
                                   /\ block_rand_base'[y] = block_rand_base[y]
  BY <1>0
<1> QED BY <1>0, <1>1, <1>3, <1>4, <1>5, VGone

\* What a realloc finds before it asks the package.
LEMMA FoundFirst ==
  ASSUME TInv, RInv, VInv, pc = "check", k =< trace.num_ops, op.index \in Ids(trace), op.type # "a"
  PROVE  /\ Found \in Nat /\ (Found > 0 => faulty)
         /\ opt.debug # 0 /\ SpoiltBlock(op.index) => Found > 0
<1>1. Found = Expensive + OwnFound
  BY DEF Found, OwnFound
<1>2. PICK X \in Nat : X = Expensive /\ (X > 0 => faulty)
  BY FoundIs
<1>3. PICK W \in {0, 1} : W = OwnFound /\ (W = 1 => faulty)
                          /\ (opt.debug # 0 /\ SpoiltBlock(op.index) => W = 1)
  BY OwnFoundIs
<1> QED BY <1>1, <1>2, <1>3

\* And in the data that the package has copied.
LEMMA MoreFoundIs ==
  ASSUME TInv, RInv, VInv, pc = "check", k =< trace.num_ops, op.index \in Ids(trace), op.type # "a",
         op.size \in Nat, NEW newp \in Int, newp # NULL, newp .. newp + op.size - 1 \subseteq Heap, NEW bytes
  PROVE  /\ MoreFound(newp, bytes) \in {0, 1}
         /\ MoreFound(newp, bytes) = 1 => faulty \/ bytes \cap (newp .. newp + Kept - 1) # {}
         /\ opt.debug # 0 /\ bytes \cap (newp .. newp + Kept - 1) # {} => MoreFound(newp, bytes) = 1
<1>1. PICK size \in Nat, z \in Nat : size = op.size /\ z = block_sizes[op.index]
  BY BlockIs
<1>13. PICK base : base = block_rand_base[op.index]
  OBVIOUS
<1>2. PICK K \in Nat : K = Kept /\ K =< size /\ K =< z
  BY <1>1 DEF Kept
<1>3. PICK c : c = Copied(newp, bytes)
  OBVIOUS
<1>4. PICK oldp : oldp = blocks[op.index]
  OBVIOUS
<1>5. \A a \in newp .. newp + K - 1 : a \in Heap
  BY <1>1, <1>2
<1>6. \A a \in Heap : c[a] = IF a \in bytes THEN Junk
                             ELSE IF a \in newp .. newp + K - 1 THEN mem[oldp + a - newp] ELSE mem[a]
  BY <1>2, <1>3, <1>4 DEF Copied, Scribbled
<1>7. /\ MoreFound(newp, bytes) \in {0, 1}
      /\ MoreFound(newp, bytes) = 1 <=> (opt.debug # 0 /\ Spoilt(c, newp, K, base))
  BY <1>1, <1>2, <1>3, <1>13, CheckIs DEF MoreFound
<1>8. K > 0 => op.index \in Live
  BY <1>1, <1>2, BlockIs
<1>9. K > 0 => oldp \in Int /\ base \in Nat /\ base > 0
  <2>1. op.index \in Live => blocks[op.index] \in Int /\ block_rand_base[op.index] \in 1 .. k - 1
    BY Others
  <2>2. k \in Nat
    BY TraceHere
  <2> QED BY <1>1, <1>4, <1>8, <1>13, <2>1, <2>2
<1>10. ASSUME opt.debug # 0, Spoilt(c, newp, K, base), ~faulty PROVE bytes \cap (newp .. newp + K - 1) # {}
  <2>1. PICK j \in 0 .. K - 1 : c[newp + j] # Datum(base, j)
    BY <1>10 DEF Spoilt
  <2>2. K > 0 /\ oldp \in Int /\ newp + j \in newp .. newp + K - 1
    BY <1>9, <2>1
  <2>3. ~SpoiltBlock(op.index)
    BY <1>8, <1>10, <2>2 DEF VInv
  <2>4. j \in 0 .. z - 1
    BY <1>2
  <2>5. mem[oldp + j] = Datum(base, j)
    BY <1>1, <1>4, <1>13, <2>3, <2>4 DEF SpoiltBlock, Spoilt
  <2>6. oldp + (newp + j) - newp = oldp + j
    BY <2>2
  <2>7. CASE newp + j \in bytes
    BY <2>2, <2>7
  <2>8. CASE newp + j \notin bytes
    BY <1>5, <1>6, <2>1, <2>2, <2>5, <2>6, <2>8
  <2> QED BY <2>7, <2>8
<1>11. ASSUME opt.debug # 0, bytes \cap (newp .. newp + K - 1) # {} PROVE Spoilt(c, newp, K, base)
  <2>1. PICK a \in newp .. newp + K - 1 : a \in bytes
    BY <1>11
  <2>2. K > 0 /\ a - newp \in 0 .. K - 1 /\ newp + (a - newp) = a
    OBVIOUS
  <2>3. c[a] = Junk
    BY <1>5, <1>6, <2>1
  <2>4. Junk # Datum(base, a - newp)
    BY <1>9, <2>2 DEF Junk, Datum
  <2> QED BY <2>2, <2>3, <2>4 DEF Spoilt
<1> QED BY <1>2, <1>7, <1>10, <1>11

\* The heap after the package has copied the data: outside the new block as before.
LEMMA CopiedIs ==
  ASSUME TInv, RInv, VInv, pc = "check", k =< trace.num_ops, op.index \in Ids(trace), op.type # "a",
         op.size \in Nat, NEW newp \in Int, newp # NULL, newp .. newp + op.size - 1 \subseteq Heap, NEW bytes
  PROVE  /\ Copied(newp, bytes) \in [Heap -> Nat \X Nat]
         /\ \A a \in Heap \ (newp .. newp + op.size - 1) :
              Copied(newp, bytes)[a] = IF a \in bytes THEN Junk ELSE mem[a]
<1>1. PICK size \in Nat, z \in Nat : size = op.size /\ z = block_sizes[op.index]
  BY BlockIs
<1>2. PICK K \in Nat : K = Kept /\ K =< size /\ K =< z
  BY <1>1 DEF Kept
<1>3. PICK oldp : oldp = blocks[op.index]
  OBVIOUS
<1>4. PICK m : m = [a \in Heap |-> IF newp # NULL /\ a \in newp .. newp + K - 1
                                    THEN mem[oldp + a - newp] ELSE mem[a]]
  OBVIOUS
<1>5. Copied(newp, bytes) = Scribbled(m, bytes)
  BY <1>2, <1>3, <1>4 DEF Copied
<1>6. K > 0 => oldp \in Int /\ \A j \in 0 .. z - 1 : oldp + j \in Heap
  <2>1. K > 0 => op.index \in Live
    BY <1>1, <1>2, BlockIs
  <2>2. op.index \in Live => blocks[op.index] \in Int /\ Payload(op.index) \subseteq Heap
    BY Others
  <2> QED BY <1>1, <1>3, <2>1, <2>2 DEF Payload
<1>7. mem \in [Heap -> Nat \X Nat] /\ \A a \in Heap : a \in Int
  BY DriverAssumption DEF VInv, Heap
<1>8. m \in [Heap -> Nat \X Nat]
  <2>1. ASSUME NEW a \in Heap, a \in newp .. newp + K - 1 PROVE oldp + a - newp \in Heap
    <3>1. K > 0 /\ a - newp \in 0 .. z - 1 /\ a \in Int
      BY <1>2, <1>7, <2>1
    <3>2. oldp + (a - newp) \in Heap /\ oldp \in Int
      BY <1>6, <3>1
    <3>3. oldp + (a - newp) = oldp + a - newp
      BY <3>1, <3>2
    <3> QED BY <3>2, <3>3
  <2>2. \A a \in Heap : (IF newp # NULL /\ a \in newp .. newp + K - 1
                          THEN mem[oldp + a - newp] ELSE mem[a]) \in Nat \X Nat
    <3> SUFFICES ASSUME NEW a \in Heap
                 PROVE  (IF newp # NULL /\ a \in newp .. newp + K - 1
                          THEN mem[oldp + a - newp] ELSE mem[a]) \in Nat \X Nat
      OBVIOUS
    <3>1. CASE a \in newp .. newp + K - 1
      BY <1>7, <2>1, <3>1
    <3>2. CASE a \notin newp .. newp + K - 1
      BY <1>7, <3>2
    <3> QED BY <3>1, <3>2
  <2> QED BY <1>4, <2>2
<1>9. \A a \in Heap \ (newp .. newp + size - 1) : a \notin newp .. newp + K - 1
  BY <1>2, <1>7
<1>10. \A a \in Heap \ (newp .. newp + size - 1) : m[a] = mem[a]
  BY <1>4, <1>9
<1>11. PICK c : c = Scribbled(m, bytes)
  OBVIOUS
<1>12. c \in [Heap -> Nat \X Nat] /\ \A a \in Heap : c[a] = IF a \in bytes THEN Junk ELSE m[a]
  BY <1>8, <1>11, Scribble
<1> QED BY <1>1, <1>5, <1>10, <1>11, <1>12

\* mm_realloc's request.
LEMMA VRealloc == TInv /\ RInv /\ VInv /\ REALLOC => VInv'
<1> SUFFICES ASSUME TInv, RInv, VInv, REALLOC PROVE VInv'
  OBVIOUS
<1>0. pc = "check" /\ k =< trace.num_ops /\ op.type = "r" /\ ValidFrame
  BY DEF REALLOC, Request
<1>1. PICK newp \in Addresses \cup {NULL}, bytes \in Scribbles :
           faulty' = ReallocFault(newp, bytes) /\ ReallocDo(newp, bytes)
  BY ReallocIs
<1>2. op.index \in Ids(trace) /\ op.type # "a" /\ op.type # "f" /\ op.size \in Nat
  BY <1>0, OpHere
<1>3. /\ Found \in Nat /\ (Found > 0 => faulty)
      /\ opt.debug # 0 /\ SpoiltBlock(op.index) => Found > 0
  BY <1>0, <1>2, FoundFirst
<1>4. PICK H : H = Live \ {op.index}
  OBVIOUS
<1>5. CASE (newp = NULL) # (op.size = 0)
  <2>1. Refuse(Found, ranges) /\ faulty'
    BY <1>1, <1>5 DEF ReallocDo, ReallocFault
  <2> QED BY <1>0, <1>3, <2>1, VRefuse
<1>6. CASE newp = NULL /\ op.size = 0
  <2>1. Accept(Found, NULL, 0, Rest, Scribbled(mem, bytes))
    BY <1>1, <1>6 DEF ReallocDo
  <2>2. faulty' = (faulty \/ bytes \cap Taken(Live \ {op.index}) # {})
    BY <1>1, <1>6 DEF ReallocFault
  <2>3. /\ pc' = "check" /\ k' = k + 1 /\ errors' = errors + Found
        /\ mem' = Scribbled(mem, bytes)
    BY <1>0, <2>1 DEF Accept, randomize_block
  <2>4. Tables(trace, blocks, block_sizes, block_rand_base)
    BY <1>0 DEF TInv, Running
  <2>5. \A y \in Live \ {op.index} : /\ blocks'[y] = blocks[y] /\ block_sizes'[y] = block_sizes[y]
                                     /\ block_rand_base'[y] = block_rand_base[y]
    BY <1>2, <2>1, <2>4 DEF Accept, Tables, Live
  <2>6. opt.debug # 0 /\ op.index \in Live /\ SpoiltBlock(op.index) => Found > 0
    BY <1>3
  <2>7. PICK e \in Nat : e = Found /\ errors' = errors + e /\ (e > 0 => faulty)
                         /\ (opt.debug # 0 /\ op.index \in Live /\ SpoiltBlock(op.index) => e > 0)
    BY <1>3, <2>3, <2>6
  <2> QED BY <1>0, <1>2, <1>6, <2>2, <2>3, <2>5, <2>7, VGone
<1>7. CASE newp # NULL /\ op.size # 0
  <2>1. newp \in Int /\ op.size > 0
    BY <1>2, <1>7, DriverAssumption
  <2>2. CASE ~add_range_Accepts(Rest, newp, op.size)
    <3>1. \A y \in H : blocks[y] \in Int /\ block_sizes[y] \in Nat
      BY <1>0, <1>4, Others
    <3>2. RangesAre(H, blocks, block_sizes, Rest)
      BY <1>0, <1>2, <1>4, RRest, LiveIsHeld
    <3>3. Misplaced(newp, op.size, H)
      BY <1>2, <2>1, <2>2, <3>1, <3>2, Refused
    <3>4. faulty' /\ Refuse(Found, Rest)
      BY <1>1, <1>4, <1>7, <2>2, <3>3 DEF ReallocFault, ReallocDo
    <3> QED BY <1>0, <1>3, <3>4, VRefuse
  <2>3. CASE add_range_Accepts(Rest, newp, op.size)
    <3>1. PICK size \in Nat : size = op.size /\ size > 0
      BY <1>2, <2>1
    <3>2. /\ newp .. newp + size - 1 \subseteq Heap
          /\ Misplaced(newp, size, H) <=> \E y \in H : Payload(y) \cap (newp .. newp + size - 1) # {}
      BY <2>1, <2>3, <3>1, MisplacedIs
    <3>3. newp .. newp + op.size - 1 \subseteq Heap
      BY <3>1, <3>2
    <3>4. PICK G : G <=> bytes \cap (newp .. newp + Kept - 1) # {}
      OBVIOUS
    <3>5. PICK M \in {0, 1} : M = MoreFound(newp, bytes) /\ (M = 1 => faulty \/ G)
                              /\ (opt.debug # 0 /\ G => M = 1)
      BY <1>0, <1>2, <1>7, <2>1, <3>3, <3>4, MoreFoundIs
    <3>6. PICK e \in Nat : e = Found + M
      BY <1>3
    <3>7. PICK m : m = Copied(newp, bytes)
      OBVIOUS
    <3>8. m \in [Heap -> Nat \X Nat]
          /\ \A a \in Heap \ (newp .. newp + op.size - 1) : m[a] = IF a \in bytes THEN Junk ELSE mem[a]
      BY <1>0, <1>2, <1>7, <2>1, <3>3, <3>7, CopiedIs
    <3>9. PICK rs : rs = add_range(Rest, newp, op.size, op.index)
      OBVIOUS
    <3>10. Accept(e, newp, op.size, rs, m)
      BY <1>1, <1>7, <2>3, <3>5, <3>6, <3>7, <3>9 DEF ReallocDo
    <3>11. PICK F \in BOOLEAN : F <=> (Misplaced(newp, size, H) \/ bytes \cap Taken(H) # {} \/ G)
      OBVIOUS
    <3>12. faulty' = (faulty \/ F)
      BY <1>1, <1>4, <1>7, <3>1, <3>4, <3>11 DEF ReallocFault
    <3>13. bytes \cap Taken(H) # {} <=> \E y \in H : Payload(y) \cap bytes # {}
      BY DEF Taken
    <3>14. e > 0 => faulty \/ F
      BY <1>3, <3>5, <3>6, <3>11
    <3>15. (\E y \in Live \ {op.index} : Payload(y) \cap (newp .. newp + op.size - 1) # {}) => F
      BY <1>4, <3>1, <3>2, <3>11
    <3>16. (\E y \in Live \ {op.index} : Payload(y) \cap bytes # {}) => F
      BY <1>4, <3>11, <3>13
    <3>17. opt.debug # 0 /\ G => e > 0
      BY <1>3, <3>5, <3>6
    <3>18. opt.debug # 0 /\ F => \/ e > 0
                                 \/ \E y \in Live \ {op.index} : Payload(y) \cap (newp .. newp + op.size - 1) # {}
                                 \/ \E y \in Live \ {op.index} : Payload(y) \cap bytes # {}
      BY <1>4, <3>1, <3>2, <3>11, <3>13, <3>17
    <3>19. opt.debug # 0 /\ op.index \in Live /\ SpoiltBlock(op.index) => e > 0
      BY <1>3, <3>6
    <3>20. Acceptable(newp, e, rs, m, bytes, F)
      BY <2>1, <3>3, <3>8, <3>10, <3>12, <3>14, <3>15, <3>16, <3>18, <3>19, Zenon DEF Acceptable
    <3> QED BY <1>0, <1>2, <3>20, VAccept, Zenon
  <2> QED BY <2>2, <2>3
<1> QED BY <1>5, <1>6, <1>7

\* The driver begins with no error.
LEMMA VStart == Init => VInv
<1> SUFFICES ASSUME Init PROVE VInv
  OBVIOUS
<1>1. Junk \in Nat \X Nat
  BY DEF Junk
<1>2. mem \in [Heap -> Nat \X Nat]
  BY <1>1 DEF Init
<1> QED BY <1>2 DEF Init, VInv

\* A step that the checks have no part in.
LEMMA VQuiet ==
  ASSUME VInv, UNCHANGED <<opt, files, errors, mem, faulty>>, pc \notin {"check", "hang", "exit"}, pc' # "check"
  PROVE  VInv'
<1>1. AllBalanced' <=> AllBalanced
  BY DEF AllBalanced
<1> QED BY <1>1 DEF VInv

\* mm_init: nothing is live yet, or the package has failed.
LEMMA VStartValid == TInv /\ VInv /\ StartValid => VInv'
<1> SUFFICES ASSUME TInv, VInv, StartValid PROVE VInv'
  OBVIOUS
<1>1. Junk \in Nat \X Nat
  BY DEF Junk
<1>2. mem' \in [Heap -> Nat \X Nat] /\ pc = "valid" /\ opt' = opt /\ files' = files
  BY <1>1 DEF StartValid
<1>3. Live' = {}
  <2>1. PICK f \in Trace : f = trace /\ Readable(f)
    BY TraceHere DEF Running, StartValid
  <2>2. trace' = f /\ k' - 1 = 0
    BY <2>1 DEF StartValid, TInv, trace
  <2>3. \A x : Holds(f, 0, x) = 0
    BY <2>1, HoldsStep
  <2> QED BY <2>2, <2>3 DEF Live
<1>4. AllBalanced' <=> AllBalanced
  BY <1>2 DEF AllBalanced
<1>5. CASE pc' = "check" /\ UNCHANGED <<errors, faulty>>
  BY <1>2, <1>3, <1>4, <1>5 DEF VInv
<1>6. CASE pc' = "free" /\ errors' = errors + 1 /\ faulty' = TRUE
  BY <1>2, <1>4, <1>6 DEF VInv
<1> QED BY <1>5, <1>6 DEF StartValid

\* A balanced trace is over: nothing is live, so what was spoilt has been counted.
LEMMA VJudged == TInv /\ VInv /\ Judged => VInv'
<1> SUFFICES ASSUME TInv, VInv, Judged PROVE VInv'
  OBVIOUS
<1>1. /\ pc = "check" /\ k > trace.num_ops /\ UNCHANGED <<opt, files, errors, mem, faulty>>
      /\ pc' \in {"free", "util"}
  BY DEF Judged, checker
<1>2. AllBalanced' <=> AllBalanced
  BY <1>1 DEF AllBalanced
<1>3. AllBalanced => Live = {}
  <2>1. trace \in Trace /\ Readable(trace) /\ k \in Nat /\ k =< trace.num_ops + 1
    BY <1>1, TraceHere DEF Running, TInv
  <2>2. k - 1 = trace.num_ops
    BY <1>1, <2>1 DEF Trace
  <2>3. AllBalanced => Balanced(trace)
    BY DEF AllBalanced, TInv, trace
  <2> QED BY <2>1, <2>2, <2>3 DEF Balanced, Live
<1> QED BY <1>1, <1>2, <1>3 DEF VInv

\* A package that never returns is not judged.
LEMMA VHang == VInv /\ Hang => VInv'
BY DEF VInv, Hang, checker

\* timeout_handler counts an error.
LEMMA VTimeout == VInv /\ timeout_handler => VInv'
BY DEF VInv, timeout_handler, checker

\* No step.
LEMMA VStutter == VInv /\ UNCHANGED vars => VInv'
<1> SUFFICES ASSUME VInv, UNCHANGED vars PROVE VInv'
  OBVIOUS
<1>1. UNCHANGED <<opt, files, pc, i, k, blocks, block_sizes, block_rand_base, errors, mem, faulty>>
  BY DEF vars, dvars, arrays, checker
<1>2. Live' = Live /\ \A x : SpoiltBlock(x)' <=> SpoiltBlock(x)
  BY <1>1 DEF Live, SpoiltBlock, trace
<1>3. AllBalanced' <=> AllBalanced
  BY <1>1 DEF AllBalanced
<1> QED BY <1>1, <1>2, <1>3 DEF VInv

\* Every step keeps the verdict right.
LEMMA VStep == TInv /\ RInv /\ VInv /\ [Next]_vars => VInv'
<1> SUFFICES ASSUME TInv, RInv, VInv, [Next]_vars PROVE VInv'
  OBVIOUS
<1> DEFINE Calm == /\ UNCHANGED <<opt, files, errors, mem, faulty>>
                   /\ pc \notin {"check", "hang", "exit"} /\ pc' # "check"
<1>1. read_trace => Calm
  BY DEF read_trace, checker
<1>2. eval_libc_valid => Calm
  BY DEF eval_libc_valid, checker
<1>3. free_trace => Calm
  BY DEF free_trace, checker
<1>4. MeasureSpace => Calm
  BY DEF MeasureSpace, checker
<1>5. Measured \/ Timed => Calm
  BY DEF Measured, Timed, checker
<1>6. TimeRun => Calm
  BY DEF TimeRun, checker
<1>7. ReplayFails \/ Report => Calm
  BY DEF ReplayFails, Report, checker
<1>8. Calm => VInv'
  BY VQuiet
<1> HIDE DEF Calm
<1> QED BY <1>1, <1>2, <1>3, <1>4, <1>5, <1>6, <1>7, <1>8, VStartValid, VAlloc, VRealloc, VFree, VJudged,
           VHang, VTimeout, VStutter
        DEF Next, Step

-----------------------------------------------------------------------------
(* The space that eval_mm_util counts. *)

\* After n requests: sizes z, total t and the most so far m.
Spaces(f, n, z, t, m) ==
  /\ \A x \in Ids(f) : ~Freed(f, n, x) => z[x] = Holds(f, n, x)
  /\ IsFiniteSet(Bytes(f, n)) /\ t = Cardinality(Bytes(f, n))
  /\ \A q \in 0..n : Cardinality(Bytes(f, q)) \in Nat /\ Cardinality(Bytes(f, q)) =< m
  /\ \E q \in 0..n : Cardinality(Bytes(f, q)) = m

\* eval_mm_util begins with no bytes.
LEMMA SpacesStart ==
  ASSUME NEW f
  PROVE  Spaces(f, 0, [x \in Ids(f) |-> 0], 0, 0)
<1>1. IsFiniteSet(Bytes(f, 0)) /\ Cardinality(Bytes(f, 0)) = 0
  BY BytesStart
<1>2. \A x : Holds(f, 0, x) = 0
  BY HoldsStep
<1> QED BY <1>1, <1>2 DEF Spaces

\* What eval_mm_util counts for a request o.
Size(o) == IF o.type = "f" THEN 0 ELSE o.size
Before(o, z) == IF o.type = "a" \/ o.index < 0 THEN 0 ELSE z[o.index]

\* One request of it, as the code counts: the new size less the old.
LEMMA SpacesStep ==
  ASSUME NEW f \in Trace, Readable(f), NEW n \in Nat, n + 1 =< f.num_ops,
         NEW o, o = f.ops[n + 1], o.type \in {"a", "r", "f"}, o.size \in Nat,
         o.index \in Ids(f) \/ (o.type = "f" /\ o.index = -1),
         o.type = "a" => Holds(f, n, o.index) = 0, o.type # "a" => ~Freed(f, n, o.index),
         NEW z \in [Ids(f) -> Nat], NEW t \in Int, NEW m \in Nat, Spaces(f, n, z, t, m),
         NEW z2, z2 = IF o.type = "f" THEN z ELSE [z EXCEPT ![o.index] = Size(o)],
         NEW t2, t2 = t + Size(o) - Before(o, z),
         NEW m2, m2 = IF t2 > m THEN t2 ELSE m
  PROVE  Spaces(f, n + 1, z2, t2, m2)
<1>1. PICK x : x = o.index
  OBVIOUS
<1>2. f.ids \in Nat
  BY TraceIs
<1>3. \A y : /\ x # y => Holds(f, n + 1, y) = Holds(f, n, y) /\ (Freed(f, n + 1, y) <=> Freed(f, n, y))
             /\ x = y => /\ Freed(f, n + 1, y) <=> o.type = "f"
                         /\ Holds(f, n + 1, y) = Size(o)
  BY <1>1, HoldsStep DEF Size
<1>4. Size(o) \in Nat
  BY DEF Size
<1>5. \A y \in Ids(f) : ~Freed(f, n + 1, y) => z2[y] = Holds(f, n + 1, y)
  <2> SUFFICES ASSUME NEW y \in Ids(f), ~Freed(f, n + 1, y) PROVE z2[y] = Holds(f, n + 1, y)
    OBVIOUS
  <2>1. CASE y = x
    <3>1. o.type # "f"
      BY <1>3, <2>1
    <3> QED BY <1>1, <1>3, <2>1, <3>1
  <2>2. CASE y # x
    <3>1. z[y] = Holds(f, n, y)
      BY <1>3, <2>2 DEF Spaces
    <3>2. z2[y] = z[y]
      BY <1>1, <2>2
    <3> QED BY <1>3, <2>2, <3>1, <3>2
  <2> QED BY <2>1, <2>2
<1>6. IsFiniteSet(Bytes(f, n)) /\ t = Cardinality(Bytes(f, n))
  BY DEF Spaces
<1>7. /\ IsFiniteSet(Bytes(f, n + 1))
      /\ x \notin Ids(f) => Cardinality(Bytes(f, n + 1)) = Cardinality(Bytes(f, n))
      /\ x \in Ids(f) => Cardinality(Bytes(f, n + 1))
                           = Cardinality(Bytes(f, n)) - Holds(f, n, x) + Holds(f, n + 1, x)
  BY <1>1, <1>6, BytesStep
<1>8. t2 = Cardinality(Bytes(f, n + 1))
  <2>1. CASE x \in Ids(f)
    <3>1. x >= 0 /\ x \in Int
      BY <1>2, <2>1 DEF Ids
    <3>2. Before(o, z) = Holds(f, n, x)
      <4>1. CASE o.type = "a"
        BY <1>1, <4>1 DEF Before
      <4>2. CASE o.type # "a"
        <5>1. Before(o, z) = z[x]
          BY <1>1, <3>1, <4>2 DEF Before
        <5>2. z[x] = Holds(f, n, x)
          BY <1>1, <2>1, <4>2 DEF Spaces
        <5> QED BY <5>1, <5>2
      <4> QED BY <4>1, <4>2
    <3>3. PICK h \in Nat : h = Holds(f, n, x)
      <4>1. n \in 0..f.num_ops
        BY TraceIs
      <4> QED BY <4>1, HoldsIsNat
    <3>4. PICK s \in Nat : s = Size(o)
      BY <1>4
    <3>5. t2 = t + s - h
      BY <3>2, <3>3, <3>4
    <3>6. Cardinality(Bytes(f, n + 1)) = t - h + s
      BY <1>3, <1>6, <1>7, <2>1, <3>3, <3>4
    <3> QED BY <3>5, <3>6
  <2>2. CASE x \notin Ids(f)
    <3>1. Size(o) = 0 /\ Before(o, z) = 0
      BY <1>1, <2>2 DEF Size, Before
    <3>2. t2 = t
      BY <3>1
    <3> QED BY <1>6, <1>7, <2>2, <3>2
  <2> QED BY <2>1, <2>2
<1>9. t2 \in Nat
  BY <1>7, <1>8, FS_CardinalityType
<1>10. m2 \in Nat /\ m =< m2 /\ t2 =< m2 /\ (m2 = m \/ m2 = t2)
  BY <1>9
<1>11. \A q \in 0 .. n + 1 : q \in 0 .. n \/ q = n + 1
  OBVIOUS
<1>12. \A q \in 0 .. n + 1 : Cardinality(Bytes(f, q)) \in Nat /\ Cardinality(Bytes(f, q)) =< m2
  <2> SUFFICES ASSUME NEW q \in 0 .. n + 1
               PROVE  Cardinality(Bytes(f, q)) \in Nat /\ Cardinality(Bytes(f, q)) =< m2
    OBVIOUS
  <2>1. CASE q = n + 1
    BY <1>8, <1>9, <1>10, <2>1
  <2>2. CASE q \in 0 .. n
    <3>1. Cardinality(Bytes(f, q)) \in Nat /\ Cardinality(Bytes(f, q)) =< m
      BY <2>2 DEF Spaces
    <3>2. PICK c \in Nat : c = Cardinality(Bytes(f, q))
      BY <3>1
    <3> QED BY <1>10, <3>1, <3>2
  <2> QED BY <1>11, <2>1, <2>2
<1>13. \E q \in 0 .. n + 1 : Cardinality(Bytes(f, q)) = m2
  <2>1. CASE m2 = t2
    <3>1. n + 1 \in 0 .. n + 1
      OBVIOUS
    <3> QED BY <1>8, <2>1, <3>1
  <2>2. CASE m2 = m
    <3>1. PICK q \in 0..n : Cardinality(Bytes(f, q)) = m
      BY DEF Spaces
    <3>2. q \in 0 .. n + 1
      OBVIOUS
    <3> QED BY <2>2, <3>1, <3>2
  <2> QED BY <1>10, <2>1, <2>2
<1> QED BY <1>5, <1>7, <1>8, <1>12, <1>13 DEF Spaces

\* While eval_mm_util runs.
SpaceInv == pc = "util" => Spaces(trace, k - 1, block_sizes, total_size, max_total_size)

\* It begins when eval_mm_valid is over.
LEMMA SJudged == TInv /\ Judged => SpaceInv'
<1> SUFFICES ASSUME TInv, Judged PROVE SpaceInv'
  OBVIOUS
<1>1. PICK f : f = trace /\ trace' = f
  BY DEF Judged, trace
<1>2. k' - 1 = 0 /\ block_sizes' = [x \in Ids(f) |-> 0] /\ total_size' = 0 /\ max_total_size' = 0
  BY <1>1 DEF Judged, reinit_trace
<1>3. Spaces(f, 0, [x \in Ids(f) |-> 0], 0, 0)
  BY SpacesStart
<1> QED BY <1>1, <1>2, <1>3 DEF SpaceInv

\* A request of it.
LEMMA SMeasure == TInv /\ SpaceInv /\ MeasureSpace => SpaceInv'
<1> SUFFICES ASSUME TInv, SpaceInv, MeasureSpace PROVE SpaceInv'
  OBVIOUS
<1>0. pc = "util" /\ k =< trace.num_ops
  BY DEF MeasureSpace
<1>1. PICK f, n : At(f, n) /\ k - 1 = n /\ op = f.ops[n + 1]
  BY <1>0, AtRequest
<1>2. PICK o : o = op
  OBVIOUS
<1>3. /\ o.type \in {"a", "r", "f"} /\ o.size \in Nat
      /\ o.index \in Ids(f) \/ (o.type = "f" /\ o.index = -1)
      /\ o.type = "a" => Holds(f, n, o.index) = 0
      /\ o.type # "a" => ~Freed(f, n, o.index)
  BY <1>0, <1>1, <1>2, OpHere DEF At
<1>4. PICK z \in [Ids(f) -> Nat], t \in Int, m \in Nat :
        z = block_sizes /\ t = total_size /\ m = max_total_size
  <2>1. block_sizes \in [Ids(f) -> Nat] /\ total_size \in Int /\ max_total_size \in Nat
    BY <1>0, <1>1 DEF TInv, Running, Tables, At
  <2> QED BY <2>1
<1>5. Spaces(f, n, z, t, m)
  BY <1>0, <1>1, <1>4 DEF SpaceInv, At
<1>6. PICK z2, t2, m2 : z2 = block_sizes' /\ t2 = total_size' /\ m2 = max_total_size'
  OBVIOUS
<1>7. /\ t2 = t + Size(o) - Before(o, z)
      /\ m2 = IF t2 > m THEN t2 ELSE m
      /\ z2 = IF o.type = "f" THEN z ELSE [z EXCEPT ![o.index] = Size(o)]
  BY Zenon, <1>2, <1>4, <1>6 DEF MeasureSpace, Size, Before
<1>8. Spaces(f, n + 1, z2, t2, m2)
  <2>1. f \in Trace /\ Readable(f) /\ n \in Nat /\ n + 1 =< f.num_ops /\ o = f.ops[n + 1]
    BY <1>1, <1>2 DEF At
  <2>2. /\ t2 = t + Size(o) - Before(o, z)
        /\ m2 = IF t2 > m THEN t2 ELSE m
        /\ z2 = IF o.type = "f" THEN z ELSE [z EXCEPT ![o.index] = Size(o)]
    BY <1>7
  <2> QED BY <1>3, <1>5, <2>1, <2>2, SpacesStep
<1>9. trace' = f /\ k' - 1 = n + 1
  <2>1. k' = k + 1 /\ trace' = trace
    BY DEF MeasureSpace, trace
  <2> QED BY <1>1, <2>1 DEF At
<1> QED BY <1>6, <1>8, <1>9 DEF SpaceInv

\* No other step goes on with it.
LEMMA SStep == TInv /\ SpaceInv /\ [Next]_vars => SpaceInv'
<1> SUFFICES ASSUME TInv, SpaceInv, [Next]_vars PROVE SpaceInv'
  OBVIOUS
<1>1. CASE UNCHANGED vars
  <2>1. UNCHANGED <<pc, k, block_sizes, total_size, max_total_size>> /\ trace' = trace
    BY <1>1 DEF vars, dvars, arrays, meter, trace
  <2> QED BY <2>1 DEF SpaceInv
<1>2. ASSUME pc' # "util" PROVE SpaceInv'
  BY <1>2 DEF SpaceInv
<1>3. read_trace \/ eval_libc_valid \/ free_trace \/ StartValid => pc' # "util"
  BY DEF read_trace, eval_libc_valid, free_trace, StartValid
<1>4. ALLOC => pc' # "util"
  BY DEF ALLOC, Request, Accept, Refuse
<1>5. REALLOC => pc' # "util"
  <2> SUFFICES ASSUME REALLOC PROVE pc' # "util"
    OBVIOUS
  <2>1. PICK newp \in Addresses \cup {NULL}, bytes \in Scribbles : ReallocDo(newp, bytes)
    BY ReallocIs
  <2>2. pc = "check"
    BY DEF REALLOC, Request
  <2> QED BY <2>1, <2>2 DEF ReallocDo, Accept, Refuse
<1>6. FREE => pc' # "util"
  BY DEF FREE, Request
<1>7. Measured \/ Timed \/ TimeRun \/ ReplayFails \/ Report => pc' # "util"
  BY DEF Measured, Timed, TimeRun, ReplayFails, Report
<1>8. Hang \/ timeout_handler => pc' # "util"
  BY DEF Hang, timeout_handler
<1> QED BY <1>1, <1>2, <1>3, <1>4, <1>5, <1>6, <1>7, <1>8, SJudged, SMeasure DEF Next, Step

-----------------------------------------------------------------------------
(* What stands behind the score. *)

\* A trace is done; Clean: no error so far, and the package is the student's.
Good(t) == stats[t].valid /\ stats[t].util = HighWater(files[t])
Clean == errors = 0 /\ ~opt.onetime /\ mode = "mm"
ScoreInv ==
  /\ timed_out => errors > 0
  /\ Clean => /\ \A t \in 1 .. i - 1 : Good(t)
              /\ pc = "util" => stats[i].valid
              /\ pc \in {"speed", "free", "report"} => Good(i)
  /\ pc = "report" => mode = "mm" /\ (opt.onetime \/ i = Len(files) \/ errors > 0)
  /\ score # "none" => pc = "exit"
  /\ score = "index" => opt.onetime \/ \A t \in DOMAIN files : Good(t)

\* The driver begins with no score.
LEMMA CStart == Init => ScoreInv
<1> SUFFICES ASSUME Init PROVE ScoreInv
  OBVIOUS
<1>1. i = 1 /\ pc = "read" /\ score = "none" /\ timed_out = FALSE
  BY DEF Init
<1>2. 1 .. i - 1 = {}
  BY <1>1
<1> QED BY <1>1, <1>2 DEF ScoreInv

\* The trace that it works on is one of the suite.
LEMMA CHere ==
  ASSUME TInv
  PROVE  i \in 1..Len(files) /\ Len(files) \in Nat /\ DOMAIN files = 1..Len(files)
BY FilesAre DEF TInv

\* A step that leaves the statistics alone and moves no trace further.
LEMMA CSame ==
  ASSUME TInv, ScoreInv, UNCHANGED <<opt, files, mode, i, stats, timed_out, score>>, score = "none",
         errors' >= errors \/ errors' > 0, errors \in Nat, errors' \in Nat,
         pc' # "report",
         pc' = "util" => pc = "util" \/ errors' > 0,
         pc' \in {"speed", "free"} => pc \in {"speed", "free"} \/ errors' > 0 \/ opt.onetime \/ mode # "mm"
  PROVE  ScoreInv'
<1>1. Clean' => Clean
  BY DEF Clean
<1>2. \A t : Good(t)' <=> Good(t)
  BY DEF Good
<1>3. timed_out' => errors' > 0
  BY DEF ScoreInv
<1>4. errors' > 0 \/ opt.onetime \/ mode # "mm" => ~Clean'
  BY DEF Clean
<1>5. ASSUME Clean'
      PROVE  /\ \A t \in 1 .. i' - 1 : Good(t)'
             /\ pc' = "util" => stats'[i'].valid
             /\ pc' \in {"speed", "free", "report"} => Good(i)'
  <2>1. \A t \in 1 .. i' - 1 : Good(t)'
    BY <1>1, <1>2, <1>5 DEF ScoreInv
  <2>2. pc' = "util" => stats'[i'].valid
    BY <1>1, <1>4, <1>5 DEF ScoreInv
  <2>3. Good(i)' <=> Good(i)
    BY DEF Good
  <2>4. pc' \in {"speed", "free", "report"} => Good(i)'
    BY <1>1, <1>4, <1>5, <2>3 DEF ScoreInv
  <2> QED BY <2>1, <2>2, <2>4
<1> QED BY <1>3, <1>5 DEF ScoreInv

\* read_trace: a package is skipped only after a timeout.
LEMMA CRead == TInv /\ VInv /\ ScoreInv /\ read_trace => ScoreInv'
<1> SUFFICES ASSUME TInv, VInv, ScoreInv, read_trace PROVE ScoreInv'
  OBVIOUS
<1>1. /\ UNCHANGED <<opt, files, mode, i, errors, timed_out, score>> /\ pc = "read"
      /\ stats' = IF Skipped THEN [stats EXCEPT ![i].valid = FALSE] ELSE stats
  BY DEF read_trace
<1>2. score = "none"
  BY <1>1 DEF ScoreInv
<1>3. CASE Skipped
  <2>1. errors' > 0 /\ ~Clean'
    BY <1>1, <1>3 DEF ScoreInv, Skipped, Clean
  <2>2. pc' # "report"
    BY DEF read_trace
  <2> QED BY <1>1, <1>2, <2>1, <2>2 DEF ScoreInv
<1>4. CASE ~Skipped
  <2>1. stats' = stats /\ pc' \in {"undefined", "exit", "valid"}
    BY <1>1, <1>4 DEF read_trace
  <2>2. errors \in Nat
    BY DEF VInv
  <2> QED BY <1>1, <1>2, <2>1, <2>2, CSame
<1> QED BY <1>3, <1>4

\* free_trace: on to the next trace, package or the results.
LEMMA CFree == TInv /\ ScoreInv /\ free_trace => ScoreInv'
<1> SUFFICES ASSUME TInv, ScoreInv, free_trace PROVE ScoreInv'
  OBVIOUS
<1>1. /\ UNCHANGED <<opt, files, stats, errors, timed_out, score>> /\ pc = "free" /\ score = "none"
      /\ pc' \in {"report", "read"}
  BY DEF free_trace, ScoreInv
<1>2. i \in 1..Len(files) /\ Len(files) \in Nat
  BY CHere
<1>3. PICK last \in BOOLEAN : last <=> (i = Len(files) \/ (mode = "mm" /\ opt.onetime /\ ~timed_out))
  OBVIOUS
<1>4. /\ pc' = IF last /\ mode = "mm" THEN "report" ELSE "read"
      /\ i' = IF ~last THEN i + 1 ELSE IF mode = "libc" THEN 1 ELSE i
      /\ mode' = IF last THEN "mm" ELSE mode
  BY <1>3 DEF free_trace
<1>5. \A t : Good(t)' <=> Good(t)
  BY <1>1 DEF Good
<1>6. mode \in {"libc", "mm"}
  BY DEF TInv
<1>7. ASSUME Clean'
      PROVE  /\ \A t \in 1 .. i' - 1 : Good(t)'
             /\ pc' = "report" => Good(i)'
  <2>1. CASE mode = "libc"
    <3>1. i' = 1 /\ pc' = "read"
      BY <1>4, <1>7, <2>1 DEF Clean
    <3>2. 1 .. i' - 1 = {}
      BY <3>1
    <3> QED BY <3>1, <3>2
  <2>2. CASE mode = "mm"
    <3>1. Clean
      BY <1>1, <1>7, <2>2 DEF Clean
    <3>2. (\A t \in 1 .. i - 1 : Good(t)) /\ Good(i)
      BY <1>1, <3>1 DEF ScoreInv
    <3>3. i' = i \/ i' = i + 1
      BY <1>4, <2>2
    <3>4. \A t \in 1 .. i' - 1 : t \in 1 .. i - 1 \/ t = i
      BY <1>2, <3>3
    <3>5. pc' = "report" => i' = i
      BY <1>4, <2>2
    <3>6. i' = i => (Good(i)' <=> Good(i))
      BY <1>1 DEF Good
    <3> QED BY <1>5, <3>2, <3>4, <3>5, <3>6
  <2> QED BY <1>6, <2>1, <2>2
<1>8. pc' = "report" => mode' = "mm" /\ (opt'.onetime \/ i' = Len(files') \/ errors' > 0)
  BY <1>1, <1>3, <1>4
<1> QED BY <1>1, <1>7, <1>8 DEF ScoreInv

\* The trace is valid.
LEMMA CJudged == TInv /\ ScoreInv /\ Judged => ScoreInv'
<1> SUFFICES ASSUME TInv, ScoreInv, Judged PROVE ScoreInv'
  OBVIOUS
<1>1. /\ UNCHANGED <<opt, files, mode, i, errors, timed_out, score>> /\ score = "none"
      /\ pc' = IF opt.onetime THEN "free" ELSE "util"
      /\ stats' = [stats EXCEPT ![i].valid = TRUE]
  BY DEF Judged, ScoreInv
<1>2. i \in DOMAIN files /\ stats \in [DOMAIN files -> Stat] /\ i \in Int
  BY CHere DEF TInv
<1>3. stats'[i].valid /\ \A t : t # i => stats'[t] = stats[t]
  BY <1>1, <1>2 DEF Stat
<1>4. \A t \in 1 .. i - 1 : t # i
  BY <1>2
<1>5. Clean' => Clean
  BY <1>1 DEF Clean
<1>6. Clean' => pc' = "util"
  BY <1>1 DEF Clean
<1>7. ASSUME Clean' PROVE \A t \in 1 .. i' - 1 : Good(t)'
  BY <1>1, <1>3, <1>4, <1>5, <1>7 DEF ScoreInv, Good
<1>8. pc' # "report" /\ stats'[i'].valid
  BY <1>1, <1>3
<1> QED BY <1>1, <1>6, <1>7, <1>8 DEF ScoreInv

\* Its use of space is known: the most that it holds at a time.
LEMMA CMeasured == TInv /\ SpaceInv /\ ScoreInv /\ Measured => ScoreInv'
<1> SUFFICES ASSUME TInv, SpaceInv, ScoreInv, Measured PROVE ScoreInv'
  OBVIOUS
<1>1. /\ UNCHANGED <<opt, files, mode, i, errors, timed_out, score>> /\ score = "none"
      /\ pc = "util" /\ pc' = "speed" /\ k > trace.num_ops
      /\ stats' = [stats EXCEPT ![i].util = max_total_size]
  BY DEF Measured, ScoreInv
<1>2. i \in DOMAIN files /\ stats \in [DOMAIN files -> Stat] /\ i \in Int
  BY CHere DEF TInv
<1>3. stats'[i].util = max_total_size /\ stats'[i].valid = stats[i].valid
      /\ \A t : t # i => stats'[t] = stats[t]
  BY <1>1, <1>2 DEF Stat
<1>4. max_total_size = HighWater(files[i])
  <2>1. PICK f \in Trace : f = trace /\ Readable(f) /\ f.num_ops \in Nat
    BY <1>1, TraceHere DEF Running, Trace
  <2>2. k - 1 = f.num_ops
    BY <1>1, <2>1, TraceHere DEF TInv, Running
  <2>3. PICK m \in Nat : m = max_total_size
    BY <1>1 DEF TInv
  <2>4. Spaces(f, f.num_ops, block_sizes, total_size, m)
    BY <1>1, <2>1, <2>2, <2>3 DEF SpaceInv
  <2>5. /\ \A n \in 0..f.num_ops : Cardinality(Bytes(f, n)) \in Nat /\ Cardinality(Bytes(f, n)) =< m
        /\ \E n \in 0..f.num_ops : Cardinality(Bytes(f, n)) = m
    BY <2>4 DEF Spaces
  <2>6. HighWater(f) = m
    BY <2>1, <2>5, HighWaterIs
  <2> QED BY <2>1, <2>3, <2>6 DEF trace
<1>5. \A t \in 1 .. i - 1 : t # i
  BY <1>2
<1>6. Clean' => Clean
  BY <1>1 DEF Clean
<1>7. ASSUME Clean' PROVE (\A t \in 1 .. i' - 1 : Good(t)') /\ Good(i)'
  <2>1. stats[i].valid
    BY <1>1, <1>6, <1>7 DEF ScoreInv
  <2>2. Good(i)'
    BY <1>1, <1>3, <1>4, <2>1 DEF Good
  <2>3. \A t \in 1 .. i' - 1 : Good(t)'
    BY <1>1, <1>3, <1>5, <1>6, <1>7 DEF ScoreInv, Good
  <2> QED BY <2>2, <2>3
<1> QED BY <1>1, <1>7 DEF ScoreInv

\* So is its time.
LEMMA CTimed == TInv /\ ScoreInv /\ Timed => ScoreInv'
<1> SUFFICES ASSUME TInv, ScoreInv, Timed PROVE ScoreInv'
  OBVIOUS
<1>1. /\ UNCHANGED <<opt, files, mode, i, errors, timed_out, score>> /\ score = "none"
      /\ pc = "speed" /\ pc' = "free"
  BY DEF Timed, ScoreInv
<1>2. i \in DOMAIN files /\ stats \in [DOMAIN files -> Stat]
  BY DEF TInv
<1>3. \A t \in DOMAIN files : stats'[t].valid = stats[t].valid /\ stats'[t].util = stats[t].util
  <2>1. CASE stats' = stats
    BY <2>1
  <2>2. CASE stats' = [stats EXCEPT ![i].secs = values[1]]
    BY <1>2, <2>2 DEF Stat
  <2> QED BY <2>1, <2>2 DEF Timed
<1>4. \A t \in DOMAIN files : Good(t) => Good(t)'
  BY <1>1, <1>3 DEF Good
<1>5. \A t \in 1 .. i - 1 : t \in DOMAIN files
  BY CHere
<1>6. Clean' => Clean
  BY <1>1 DEF Clean
<1>7. ASSUME Clean' PROVE (\A t \in 1 .. i' - 1 : Good(t)') /\ Good(i)'
  <2>1. (\A t \in 1 .. i - 1 : Good(t)) /\ Good(i)
    BY <1>1, <1>6, <1>7 DEF ScoreInv
  <2>2. Good(i)'
    BY <1>1, <1>2, <1>3, <2>1 DEF Good
  <2>3. \A t \in 1 .. i' - 1 : Good(t)'
    BY <1>1, <1>4, <1>5, <2>1
  <2> QED BY <2>2, <2>3
<1> QED BY <1>1, <1>7 DEF ScoreInv

\* main prints an index only without errors.
LEMMA CReport == TInv /\ VInv /\ ScoreInv /\ Report => ScoreInv'
<1> SUFFICES ASSUME TInv, VInv, ScoreInv, Report PROVE ScoreInv'
  OBVIOUS
<1>1. /\ UNCHANGED <<opt, files, mode, i, stats, errors, timed_out>>
      /\ pc = "report" /\ pc' = "exit" /\ score' = IF errors = 0 THEN "index" ELSE "errors"
  BY DEF Report
<1>2. \A t : Good(t)' <=> Good(t)
  BY <1>1 DEF Good
<1>3. Clean' => Clean
  BY <1>1 DEF Clean
<1>4. ASSUME Clean' PROVE \A t \in 1 .. i' - 1 : Good(t)'
  BY <1>1, <1>2, <1>3, <1>4 DEF ScoreInv
<1>5. ASSUME score' = "index", ~opt.onetime PROVE \A t \in DOMAIN files : Good(t)'
  <2>1. Clean /\ i = Len(files)
    BY <1>1, <1>5 DEF ScoreInv, Clean
  <2>2. (\A t \in 1 .. i - 1 : Good(t)) /\ Good(i)
    BY <1>1, <2>1 DEF ScoreInv
  <2>3. \A t \in DOMAIN files : t \in 1 .. i - 1 \/ t = i
    BY <2>1, CHere
  <2> QED BY <1>2, <2>2, <2>3
<1>6. timed_out' => errors' > 0
  BY <1>1 DEF ScoreInv
<1> QED BY <1>1, <1>4, <1>5, <1>6 DEF ScoreInv

\* timeout_handler leaves an error.
LEMMA CTimeout == ScoreInv /\ timeout_handler => ScoreInv'
<1> SUFFICES ASSUME ScoreInv, timeout_handler PROVE ScoreInv'
  OBVIOUS
<1>1. errors' = 1 /\ score' = score /\ score = "none" /\ pc' # "report"
  BY DEF timeout_handler, ScoreInv
<1> QED BY <1>1 DEF ScoreInv, Clean

\* The steps of eval_mm_valid.
LEMMA CChecks ==
  ASSUME TInv, RInv, VInv, ScoreInv, StartValid \/ ALLOC \/ REALLOC \/ FREE
  PROVE  ScoreInv'
<1>1. errors \in Nat
  BY DEF VInv
<1>2. UNCHANGED <<opt, files, mode, i, stats, timed_out, score>> /\ pc \in {"valid", "check"}
  BY DEF StartValid, ALLOC, REALLOC, FREE, ValidFrame, Request
<1>3. score = "none"
  BY <1>2 DEF ScoreInv
<1> DEFINE Onward == /\ errors' \in Nat /\ errors' >= errors /\ pc' \in {"check", "free", "exit"}
                     /\ pc' = "free" => errors' > 0
<1>4. Onward
  <2>1. CASE StartValid
    BY <1>1, <2>1 DEF StartValid
  <2>2. ASSUME NEW found \in Nat, NEW rs, Refuse(found, rs) PROVE Onward
    BY <1>1, <2>2 DEF Refuse
  <2>3. ASSUME NEW found \in Nat, NEW lo, NEW size, NEW rs, NEW m, Accept(found, lo, size, rs, m), pc = "check"
        PROVE  Onward
    BY <1>1, <2>3 DEF Accept
  <2>4. CASE ALLOC
    <3>1. pc = "check"
      BY <2>4 DEF ALLOC, Request
    <3>2. Expensive \in Nat
      BY <3>1, FoundIs
    <3>3. \/ Refuse(Expensive, ranges)
          \/ pc' = "exit" /\ errors' = errors
          \/ \E lo, size, rs, m : Accept(Expensive, lo, size, rs, m)
      BY <2>4 DEF ALLOC
    <3> QED BY <1>1, <2>2, <2>3, <3>1, <3>2, <3>3
  <2>5. CASE REALLOC
    <3>1. pc = "check" /\ k =< trace.num_ops /\ op.type = "r"
      BY <2>5 DEF REALLOC, Request
    <3>2. op.index \in Ids(trace) /\ op.type # "a"
      BY <3>1, OpHere
    <3>3. Found \in Nat
      BY <3>1, <3>2, FoundFirst
    <3>4. PICK newp, bytes : ReallocDo(newp, bytes)
      BY <2>5, ReallocIs
    <3>5. MoreFound(newp, bytes) \in {0, 1}
      BY CheckIs DEF MoreFound
    <3>6. Found + MoreFound(newp, bytes) \in Nat
      BY <3>3, <3>5
    <3>7. \/ Refuse(Found, ranges) \/ Refuse(Found, Rest)
          \/ \E found, lo, size, rs, m : found \in Nat /\ Accept(found, lo, size, rs, m)
      BY <3>3, <3>4, <3>6 DEF ReallocDo
    <3> QED BY <2>2, <2>3, <3>1, <3>3, <3>7
  <2>6. CASE FREE
    <3>1. pc = "check" /\ pc' = "check"
      BY <2>6 DEF FREE, Request
    <3>2. Expensive \in Nat
      BY <3>1, FoundIs
    <3>3. OwnFound \in {0, 1}
      BY CheckIs DEF OwnFound
    <3>4. errors' = errors + Expensive \/ errors' = errors + Expensive + OwnFound
      BY <2>6 DEF FREE, OwnFound
    <3> QED BY <1>1, <3>1, <3>2, <3>3, <3>4
  <2> QED BY <2>1, <2>4, <2>5, <2>6
<1> QED BY <1>1, <1>2, <1>3, <1>4, CSame

\* Every step keeps what stands behind the score.
LEMMA CStep == TInv /\ RInv /\ VInv /\ SpaceInv /\ ScoreInv /\ [Next]_vars => ScoreInv'
<1> SUFFICES ASSUME TInv, RInv, VInv, SpaceInv, ScoreInv, [Next]_vars PROVE ScoreInv'
  OBVIOUS
<1> DEFINE Calm == /\ UNCHANGED <<opt, files, mode, i, stats, errors, timed_out, score>> /\ pc # "exit"
                   /\ \/ pc' \in {"exit", "hang"}
                      \/ pc' = pc /\ pc # "report"
                      \/ mode = "libc" /\ pc' = "speed"
<1>1. Calm => ScoreInv'
  <2> SUFFICES ASSUME Calm PROVE ScoreInv'
    OBVIOUS
  <2>1. score = "none" /\ errors \in Nat
    BY DEF ScoreInv, VInv
  <2>2. errors' >= errors /\ errors' \in Nat
    BY <2>1
  <2> QED BY <2>1, <2>2, CSame
<1>2. eval_libc_valid => Calm
  BY DEF eval_libc_valid
<1>3. MeasureSpace => Calm
  BY DEF MeasureSpace
<1>4. TimeRun => Calm
  BY DEF TimeRun
<1>5. ReplayFails \/ Hang => Calm
  BY DEF ReplayFails, Hang
<1>6. CASE UNCHANGED vars
  <2>1. UNCHANGED <<opt, files, pc, mode, i, stats, errors, timed_out, score>>
    BY <1>6 DEF vars, dvars
  <2>2. \A t : Good(t)' <=> Good(t)
    BY <2>1 DEF Good
  <2>3. Good(i)' <=> Good(i)
    BY <2>1 DEF Good
  <2>4. Clean' <=> Clean
    BY <2>1 DEF Clean
  <2> QED BY <2>1, <2>2, <2>3, <2>4 DEF ScoreInv
<1> HIDE DEF Calm
<1>7. StartValid \/ ALLOC \/ REALLOC \/ FREE => ScoreInv'
  BY CChecks
<1> QED BY <1>1, <1>2, <1>3, <1>4, <1>5, <1>6, <1>7, CRead, CFree, CJudged, CMeasured, CTimed, CReport, CTimeout
        DEF Next, Step

\* The invariant of the driver.
DInv == TInv /\ FInv /\ RInv /\ VInv /\ SpaceInv /\ ScoreInv

\* The driver begins in the invariant.
LEMMA DStart == Init => DInv
<1> SUFFICES ASSUME Init PROVE DInv
  OBVIOUS
<1>1. pc = "read"
  BY DEF Init
<1>2. RInv /\ SpaceInv
  BY <1>1 DEF RInv, SpaceInv
<1>3. FInv
  BY FcycInitially DEF Init
<1> QED BY <1>2, <1>3, TStart, VStart, CStart DEF DInv

\* Every step keeps it.
LEMMA DStep == DInv /\ [Next]_vars => DInv'
BY TStep, FInvStep, RStep, VStep, SStep, CStep DEF DInv

\* So it always holds.
LEMMA DHolds == Spec => []DInv
BY DStart, DStep, PTL DEF Spec

\* The range list always is the record of what the trace owns: one entry for each block that
\* has been given out and not freed, and an overlap that add_range lets pass is one where the
\* new payload covers the old on both sides (add_range, remove_range, clear_ranges).
THEOREM RangesHold == Spec => []RangesAreLive
<1>1. DInv => RangesAreLive
  <2> SUFFICES ASSUME DInv PROVE RangesAreLive
    OBVIOUS
  <2>1. TypeOK
    BY DEF DInv, TInv, VInv, TypeOK, Points
  <2>2. ASSUME pc = "check", ~NoRanges
        PROVE  /\ {ranges[n].index : n \in DOMAIN ranges} = Live /\ Len(ranges) = Cardinality(Live)
               /\ \A n \in DOMAIN ranges : ranges[n].lo .. ranges[n].hi = Payload(ranges[n].index)
               /\ \A n, q \in DOMAIN ranges : n < q =>
                    \/ ranges[n].hi < ranges[q].lo \/ ranges[q].hi < ranges[n].lo
                    \/ ranges[n].lo < ranges[q].lo /\ ranges[q].hi < ranges[n].hi
    <3>1. Lists(Live, blocks, block_sizes, ranges)
      BY <2>2, LiveIsHeld DEF DInv, RInv, RangesAre
    <3>2. DOMAIN ranges = 1..Len(ranges)
      BY <3>1, SeqIs DEF Lists
    <3>3. /\ {ranges[n].index : n \in DOMAIN ranges} = Live /\ Len(ranges) = Cardinality(Live)
      BY <3>1, <3>2, ListCardinality
    <3>4. \A n \in DOMAIN ranges : ranges[n].lo .. ranges[n].hi = Payload(ranges[n].index)
      BY <3>1, <3>2 DEF Lists, Entry, Payload
    <3>5. \A n, q \in DOMAIN ranges : n < q => Apart(ranges[n], ranges[q])
      BY <3>1, <3>2 DEF Lists
    <3> QED BY <3>3, <3>4, <3>5 DEF Apart
  <2> QED BY <2>1, <2>2 DEF RangesAreLive
<1> QED BY <1>1, DHolds, PTL

\* The driver counts an error only for a package that has misbehaved; and with debugging on
\* and balanced traces, as far as random data tells its fills apart (Datum), it has counted
\* one for each that has (eval_mm_valid, check_index).
THEOREM VerdictHolds == Spec => []VerdictIsRight
<1>1. DInv => VerdictIsRight
  BY DEF DInv, VInv, AllBalanced, VerdictIsRight
<1> QED BY <1>1, DHolds, PTL

\* A performance index is printed only when every trace was valid, with the high-water mark
\* of the trace as its use of space (eval_mm_util, main); after a timeout none is.
THEOREM ScoreHolds == Spec => []CleanScore
<1>1. DInv => CleanScore
  BY DEF DInv, ScoreInv, Good, CleanScore
<1> QED BY <1>1, DHolds, PTL
=============================================================================
