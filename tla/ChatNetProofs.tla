---------------------------- MODULE ChatNetProofs ----------------------------
(* A network of chat processes is one room, for any graph of connections, any *)
(* number of processes and any number of messages.                            *)
EXTENDS ChatNetProperties, Integers, FiniteSetTheorems, SequenceTheorems, TLAPS

-----------------------------------------------------------------------------
(* Lists of numbers and queues of messages. *)

Message == [id : Nat, ttl : Int]
Line == [by : Procs, after : SUBSET Nat]

\* The numbers in a queue.
Ids(q) == {q[k].id : k \in DOMAIN q}

\* In q, behind those of S, each message comes after what its author had seen.
Ordered(w, q, S) ==
  \A k \in 1..Len(q) : \A n \in w[q[k].id].after : n \in S \/ \E j \in 1..(k - 1) : q[j].id = n
Closed(w, s)     == \A k \in 1..Len(s) : \A n \in w[s[k]].after : \E j \in 1..(k - 1) : s[j] = n
Distinct(s)      == \A j, k \in 1..Len(s) : s[j] = s[k] => j = k

\* d holds the numbers of s from where c ends, and c the ones before.
Streams(s, c, d) ==
  /\ Len(s) = Len(c) + Len(d)
  /\ \A k \in 1..Len(c) : s[k] = c[k]
  /\ \A k \in 1..Len(d) : s[Len(c) + k] = d[k].id

\* What Append and Tail do.
LEMMA AppendIs ==
  ASSUME NEW S, NEW s \in Seq(S), NEW x \in S
  PROVE  /\ Append(s, x) \in Seq(S) /\ Len(Append(s, x)) = Len(s) + 1 /\ Len(s) \in Nat
         /\ DOMAIN s = 1..Len(s) /\ DOMAIN Append(s, x) = 1..(Len(s) + 1)
         /\ Append(s, x)[Len(s) + 1] = x
         /\ \A k \in 1..Len(s) : Append(s, x)[k] = s[k]
         /\ \A k \in 1..(Len(s) + 1) : k \in 1..Len(s) \/ k = Len(s) + 1
         /\ \A k \in 1..Len(s) : k \in 1..(Len(s) + 1)
         /\ Len(s) + 1 \in 1..(Len(s) + 1)
OBVIOUS

\* What Tail and Head do.
LEMMA TailIs ==
  ASSUME NEW S, NEW s \in Seq(S), s # <<>>
  PROVE  /\ Tail(s) \in Seq(S) /\ Len(Tail(s)) = Len(s) - 1 /\ Len(s) \in Nat \ {0}
         /\ DOMAIN s = 1..Len(s) /\ DOMAIN Tail(s) = 1..(Len(s) - 1)
         /\ Head(s) = s[1] /\ Head(s) \in S /\ 1 \in 1..Len(s)
         /\ \A k \in 1..(Len(s) - 1) : Tail(s)[k] = s[k + 1] /\ k + 1 \in 1..Len(s) /\ k + 1 # 1
         /\ \A k \in 1..Len(s) : k = 1 \/ (k - 1 \in 1..(Len(s) - 1) /\ Tail(s)[k - 1] = s[k])
BY HeadTailProperties

\* A message put on a queue adds its number to those of the queue.
LEMMA IdsAppend ==
  ASSUME NEW q \in Seq(Message), NEW m \in Message
  PROVE  Ids(Append(q, m)) = Ids(q) \cup {m.id}
<1> DEFINE r == Append(q, m)
<1>1. /\ DOMAIN q = 1..Len(q) /\ DOMAIN r = 1..(Len(q) + 1) /\ Len(q) + 1 \in 1..(Len(q) + 1)
      /\ r[Len(q) + 1] = m /\ \A k \in 1..Len(q) : r[k] = q[k] /\ k \in 1..(Len(q) + 1)
      /\ \A k \in 1..(Len(q) + 1) : k \in 1..Len(q) \/ k = Len(q) + 1
  BY AppendIs
<1> HIDE DEF r
<1>2. \A n : n \in Ids(r) <=> \E k \in 1..(Len(q) + 1) : n = r[k].id
  BY <1>1 DEF Ids
<1>3. \A n : n \in Ids(q) <=> \E k \in 1..Len(q) : n = q[k].id
  BY <1>1 DEF Ids
<1>4. \A n : n \in Ids(r) <=> n \in Ids(q) \/ n = m.id
  BY <1>1, <1>2, <1>3
<1> QED BY <1>4 DEF r

\* The numbers of a queue are that of its first message and those behind it.
LEMMA IdsTail ==
  ASSUME NEW q \in Seq(Message), q # <<>>
  PROVE  Ids(q) = {Head(q).id} \cup Ids(Tail(q))
<1> DEFINE r == Tail(q)
<1>1. /\ DOMAIN q = 1..Len(q) /\ DOMAIN r = 1..(Len(q) - 1) /\ Head(q) = q[1] /\ 1 \in 1..Len(q)
      /\ \A k \in 1..(Len(q) - 1) : r[k] = q[k + 1] /\ k + 1 \in 1..Len(q)
      /\ \A k \in 1..Len(q) : k = 1 \/ (k - 1 \in 1..(Len(q) - 1) /\ r[k - 1] = q[k])
  BY TailIs
<1> HIDE DEF r
<1>2. \A n : n \in Ids(r) <=> \E k \in 1..(Len(q) - 1) : n = r[k].id
  BY <1>1 DEF Ids
<1>3. \A n : n \in Ids(q) <=> \E k \in 1..Len(q) : n = q[k].id
  BY <1>1 DEF Ids
<1>4. \A n : n \in Ids(q) <=> n \in Ids(r) \/ n = Head(q).id
  BY <1>1, <1>2, <1>3
<1> QED BY <1>4 DEF r

\* An identity added to a cache is known beside those before.
LEMMA KnownAppend ==
  ASSUME NEW s \in Seq(Nat), NEW x \in Nat
  PROVE  Known(Append(s, x)) = Known(s) \cup {x}
<1> DEFINE r == Append(s, x)
<1>1. /\ DOMAIN s = 1..Len(s) /\ DOMAIN r = 1..(Len(s) + 1) /\ Len(s) + 1 \in 1..(Len(s) + 1)
      /\ r[Len(s) + 1] = x /\ \A k \in 1..Len(s) : r[k] = s[k] /\ k \in 1..(Len(s) + 1)
      /\ \A k \in 1..(Len(s) + 1) : k \in 1..Len(s) \/ k = Len(s) + 1
  BY AppendIs
<1> HIDE DEF r
<1>2. \A n : n \in Known(r) <=> \E k \in 1..(Len(s) + 1) : n = r[k]
  BY <1>1 DEF Known
<1>3. \A n : n \in Known(s) <=> \E k \in 1..Len(s) : n = s[k]
  BY <1>1 DEF Known
<1>4. \A n : n \in Known(r) <=> n \in Known(s) \/ n = x
  BY <1>1, <1>2, <1>3
<1> QED BY <1>4 DEF r

\* The first of an ordered queue comes after no other, and may pass into the group.
LEMMA OrderedTail ==
  ASSUME NEW w, NEW q \in Seq(Message), q # <<>>, NEW S, NEW T, Ordered(w, q, S),
         S \subseteq T, Head(q).id \in T
  PROVE  Ordered(w, Tail(q), T) /\ w[Head(q).id].after \subseteq S
<1> DEFINE r == Tail(q)
<1>1. /\ r \in Seq(Message) /\ Len(r) = Len(q) - 1 /\ Len(q) \in Nat \ {0}
      /\ Head(q) = q[1] /\ 1 \in 1..Len(q)
      /\ \A k \in 1..(Len(q) - 1) : r[k] = q[k + 1] /\ k + 1 \in 1..Len(q) /\ k + 1 # 1
  BY TailIs
<1> HIDE DEF r
<1>2. w[Head(q).id].after \subseteq S
  <2>1. \A j \in 1..(1 - 1) : FALSE
    OBVIOUS
  <2> QED BY <1>1, <2>1 DEF Ordered
<1>3. ASSUME NEW k \in 1..Len(r), NEW n \in w[r[k].id].after
      PROVE  n \in T \/ \E j \in 1..(k - 1) : r[j].id = n
  <2>1. r[k] = q[k + 1] /\ k + 1 \in 1..Len(q)
    BY <1>1
  <2>2. n \in S \/ \E j \in 1..((k + 1) - 1) : q[j].id = n
    BY <1>3, <2>1 DEF Ordered
  <2>3. ASSUME NEW j \in 1..((k + 1) - 1), q[j].id = n
        PROVE  n \in T \/ \E h \in 1..(k - 1) : r[h].id = n
    <3>1. CASE j = 1
      BY <1>1, <2>3, <3>1
    <3>2. CASE j # 1
      <4>1. j - 1 \in 1..(k - 1) /\ j - 1 \in 1..(Len(q) - 1) /\ (j - 1) + 1 = j
        BY <1>1, <3>2
      <4>2. r[j - 1] = q[j]
        BY <1>1, <4>1
      <4> QED BY <2>3, <4>1, <4>2
    <3> QED BY <3>1, <3>2
  <2> QED BY <2>2, <2>3
<1> QED BY <1>2, <1>3 DEF Ordered, r

\* A message may be put behind what its author had seen.
LEMMA OrderedAppend ==
  ASSUME NEW w, NEW q \in Seq(Message), NEW m \in Message, NEW S, NEW T, Ordered(w, q, S),
         S \subseteq T, \A n \in w[m.id].after : n \in T \/ n \in Ids(q)
  PROVE  Ordered(w, Append(q, m), T)
<1> DEFINE r == Append(q, m)
<1>1. /\ Len(r) = Len(q) + 1 /\ Len(q) \in Nat /\ DOMAIN q = 1..Len(q)
      /\ r[Len(q) + 1] = m /\ \A k \in 1..Len(q) : r[k] = q[k]
      /\ \A k \in 1..(Len(q) + 1) : k \in 1..Len(q) \/ k = Len(q) + 1
  BY AppendIs
<1> HIDE DEF r
<1>2. ASSUME NEW k \in 1..Len(r), NEW n \in w[r[k].id].after
      PROVE  n \in T \/ \E j \in 1..(k - 1) : r[j].id = n
  <2>1. CASE k = Len(q) + 1
    <3>1. n \in T \/ \E j \in 1..Len(q) : q[j].id = n
      BY <1>1, <1>2, <2>1 DEF Ids
    <3>2. \A j \in 1..Len(q) : j \in 1..(k - 1)
      BY <1>1, <2>1
    <3> QED BY <1>1, <3>1, <3>2
  <2>2. CASE k \in 1..Len(q)
    <3>1. n \in S \/ \E j \in 1..(k - 1) : q[j].id = n
      BY <1>1, <1>2, <2>2 DEF Ordered
    <3>2. \A j \in 1..(k - 1) : j \in 1..Len(q)
      BY <1>1, <2>2
    <3> QED BY <1>1, <3>1, <3>2
  <2> QED BY <1>1, <1>2, <2>1, <2>2
<1> QED BY <1>2 DEF Ordered, r

\* A queue stays ordered when more is behind it, or when more is said.
LEMMA OrderedMore ==
  ASSUME NEW w, NEW v, NEW q \in Seq(Message), NEW S, NEW T, Ordered(w, q, S),
         S \subseteq T, \A n \in Ids(q) : v[n] = w[n]
  PROVE  Ordered(v, q, T)
<1>1. \A k \in 1..Len(q) : q[k].id \in Ids(q)
  BY DEF Ids
<1> QED BY <1>1 DEF Ordered

\* A cache takes a message after those that its author had seen.
LEMMA ClosedAppend ==
  ASSUME NEW w, NEW s \in Seq(Nat), NEW x \in Nat, Closed(w, s), w[x].after \subseteq Known(s)
  PROVE  Closed(w, Append(s, x))
<1> DEFINE r == Append(s, x)
<1>1. /\ Len(r) = Len(s) + 1 /\ Len(s) \in Nat /\ DOMAIN s = 1..Len(s)
      /\ r[Len(s) + 1] = x /\ \A k \in 1..Len(s) : r[k] = s[k]
      /\ \A k \in 1..(Len(s) + 1) : k \in 1..Len(s) \/ k = Len(s) + 1
  BY AppendIs
<1> HIDE DEF r
<1>2. ASSUME NEW k \in 1..Len(r), NEW n \in w[r[k]].after
      PROVE  \E j \in 1..(k - 1) : r[j] = n
  <2>1. CASE k = Len(s) + 1
    <3>1. \E j \in 1..Len(s) : s[j] = n
      BY <1>1, <1>2, <2>1 DEF Known
    <3>2. \A j \in 1..Len(s) : j \in 1..(k - 1)
      BY <1>1, <2>1
    <3> QED BY <1>1, <3>1, <3>2
  <2>2. CASE k \in 1..Len(s)
    <3>1. \E j \in 1..(k - 1) : s[j] = n
      BY <1>1, <1>2, <2>2 DEF Closed
    <3>2. \A j \in 1..(k - 1) : j \in 1..Len(s)
      BY <1>1, <2>2
    <3> QED BY <1>1, <3>1, <3>2
  <2> QED BY <1>1, <1>2, <2>1, <2>2
<1> QED BY <1>2 DEF Closed, r

\* A cache stays closed when more is said.
LEMMA ClosedMore ==
  ASSUME NEW w, NEW v, NEW s \in Seq(Nat), Closed(w, s), \A n \in Known(s) : v[n] = w[n]
  PROVE  Closed(v, s)
<1>1. \A k \in 1..Len(s) : s[k] \in Known(s)
  BY DEF Known
<1> QED BY <1>1 DEF Closed

\* A cache that takes only what it does not know has no number twice.
LEMMA DistinctAppend ==
  ASSUME NEW s \in Seq(Nat), NEW x \in Nat, Distinct(s), x \notin Known(s)
  PROVE  Distinct(Append(s, x))
<1> DEFINE r == Append(s, x)
<1>1. /\ Len(r) = Len(s) + 1 /\ Len(s) \in Nat /\ DOMAIN s = 1..Len(s)
      /\ r[Len(s) + 1] = x /\ \A k \in 1..Len(s) : r[k] = s[k]
      /\ \A k \in 1..(Len(s) + 1) : k \in 1..Len(s) \/ k = Len(s) + 1
  BY AppendIs
<1> HIDE DEF r
<1>2. \A k \in 1..Len(s) : s[k] # x
  BY <1>1 DEF Known
<1> QED BY <1>1, <1>2 DEF Distinct, r

\* A list without repetitions is no longer than the numbers it is made of.
LEMMA DistinctLen ==
  ASSUME NEW s \in Seq(Nat), Distinct(s), NEW n \in Nat, Known(s) \subseteq 1..n
  PROVE  Len(s) =< n
<1>1. Len(s) \in Nat /\ s \in [1..Len(s) -> Known(s)] /\ DOMAIN s = 1..Len(s)
  BY DEF Known
<1>2. s \in Bijection(1..Len(s), Known(s))
  BY <1>1 DEF Distinct, Known, Bijection, Injection, Surjection, IsInjective
<1>3. /\ IsFiniteSet(1..Len(s))
      /\ Cardinality(1..Len(s)) = IF 1 > Len(s) THEN 0 ELSE Len(s) - 1 + 1
  <2>1. 1 \in Int /\ Len(s) \in Int
    BY <1>1
  <2> QED BY <2>1, FS_Interval
<1>4. /\ IsFiniteSet(1..n)
      /\ Cardinality(1..n) = IF 1 > n THEN 0 ELSE n - 1 + 1
  <2>1. 1 \in Int /\ n \in Int
    OBVIOUS
  <2> QED BY <2>1, FS_Interval
<1>5. Cardinality(Known(s)) = Cardinality(1..Len(s))
  BY <1>2, <1>3, FS_Bijection DEF ExistsBijection
<1>6. Cardinality(Known(s)) =< Cardinality(1..n)
  BY <1>4, FS_Subset
<1> QED BY <1>1, <1>3, <1>4, <1>5, <1>6

\* What broadcast adds to a group it sends to each session.
LEMMA StreamsAppend ==
  ASSUME NEW s \in Seq(Nat), NEW c \in Seq(Nat), NEW d \in Seq(Message), NEW m \in Message,
         Streams(s, c, d)
  PROVE  Streams(Append(s, m.id), c, Append(d, m))
<1> DEFINE u == Append(s, m.id)
<1> DEFINE e == Append(d, m)
<1>1. /\ Len(u) = Len(s) + 1 /\ Len(s) \in Nat /\ u[Len(s) + 1] = m.id
      /\ \A k \in 1..Len(s) : u[k] = s[k]
  BY AppendIs DEF Message
<1>2. /\ Len(e) = Len(d) + 1 /\ Len(d) \in Nat /\ e[Len(d) + 1] = m
      /\ \A k \in 1..Len(d) : e[k] = d[k]
      /\ \A k \in 1..(Len(d) + 1) : k \in 1..Len(d) \/ k = Len(d) + 1
  BY AppendIs
<1>3. Len(c) \in Nat
  OBVIOUS
<1> HIDE DEF u, e
<1>4. Len(u) = Len(c) + Len(e) /\ Len(c) + (Len(d) + 1) = Len(s) + 1
  BY <1>1, <1>2, <1>3 DEF Streams
<1>5. \A k \in 1..Len(c) : u[k] = c[k]
  <2>1. \A k \in 1..Len(c) : k \in 1..Len(s)
    BY <1>1, <1>2, <1>3 DEF Streams
  <2> QED BY <1>1, <2>1 DEF Streams
<1>6. \A k \in 1..Len(d) : u[Len(c) + k] = e[k].id
  <2>1. \A k \in 1..Len(d) : Len(c) + k \in 1..Len(s)
    BY <1>1, <1>2, <1>3 DEF Streams
  <2> QED BY <1>1, <1>2, <2>1 DEF Streams
<1>7. u[Len(c) + (Len(d) + 1)] = e[Len(d) + 1].id
  BY <1>1, <1>2, <1>4
<1> QED BY <1>2, <1>4, <1>5, <1>6, <1>7 DEF Streams, u, e

\* What a client reads is the next of its group, new to it, behind what its author had seen.
LEMMA StreamsTail ==
  ASSUME NEW s \in Seq(Nat), NEW c \in Seq(Nat), NEW d \in Seq(Message), d # <<>>,
         Streams(s, c, d)
  PROVE  /\ Streams(s, Append(c, Head(d).id), Tail(d))
         /\ Head(d).id \in Known(s) /\ Len(c) + 1 =< Len(s)
         /\ Distinct(s) => Head(d).id \notin Known(c)
         /\ \A w : Closed(w, s) => w[Head(d).id].after \subseteq Known(c)
<1> DEFINE x == Head(d).id
<1> DEFINE b == Append(c, x)
<1> DEFINE e == Tail(d)
<1>1. /\ Len(e) = Len(d) - 1 /\ Len(d) \in Nat \ {0} /\ Head(d) = d[1] /\ 1 \in 1..Len(d)
      /\ Head(d) \in Message
      /\ \A k \in 1..(Len(d) - 1) : e[k] = d[k + 1] /\ k + 1 \in 1..Len(d)
  BY TailIs
<1>2. x \in Nat
  BY <1>1 DEF Message
<1>3. /\ Len(b) = Len(c) + 1 /\ Len(c) \in Nat /\ b[Len(c) + 1] = x /\ DOMAIN c = 1..Len(c)
      /\ \A k \in 1..Len(c) : b[k] = c[k]
      /\ \A k \in 1..(Len(c) + 1) : k \in 1..Len(c) \/ k = Len(c) + 1
  BY <1>2, AppendIs
<1>4. Len(s) \in Nat /\ DOMAIN s = 1..Len(s) /\ x = d[1].id
  BY <1>1
<1> HIDE DEF x, b, e
<1>5. s[Len(c) + 1] = x /\ Len(s) = Len(c) + Len(d)
  BY <1>1, <1>4 DEF Streams
<1>6. Len(c) + 1 \in 1..Len(s) /\ Len(s) = Len(b) + Len(e)
  BY <1>1, <1>3, <1>4, <1>5
<1>7. Streams(s, b, e)
  <2>1. \A k \in 1..Len(b) : s[k] = b[k]
    BY <1>3, <1>5 DEF Streams
  <2>2. ASSUME NEW k \in 1..Len(e) PROVE s[Len(b) + k] = e[k].id
    <3>1. k + 1 \in 1..Len(d) /\ e[k] = d[k + 1] /\ Len(b) + k = Len(c) + (k + 1)
      BY <1>1, <1>3
    <3> QED BY <3>1 DEF Streams
  <2> QED BY <1>6, <2>1, <2>2 DEF Streams
<1>8. x \in Known(s)
  BY <1>4, <1>5, <1>6 DEF Known
<1>9. ASSUME Distinct(s) PROVE x \notin Known(c)
  <2> SUFFICES ASSUME NEW k \in 1..Len(c), c[k] = x PROVE FALSE
    BY <1>3 DEF Known
  <2>1. k \in 1..Len(s) /\ k # Len(c) + 1
    BY <1>3, <1>4, <1>6
  <2>2. s[k] = s[Len(c) + 1]
    BY <1>5 DEF Streams
  <2> QED BY <1>6, <1>9, <2>1, <2>2 DEF Distinct
<1>10. ASSUME NEW w, Closed(w, s), NEW n \in w[x].after PROVE n \in Known(c)
  <2>1. \E j \in 1..((Len(c) + 1) - 1) : s[j] = n
    BY <1>5, <1>6, <1>10 DEF Closed
  <2>2. PICK j \in 1..Len(c) : s[j] = n
    BY <1>3, <2>1
  <2> QED BY <1>3, <2>2 DEF Known, Streams
<1>11. Len(c) + 1 =< Len(s)
  BY <1>4, <1>6
<1> QED BY <1>7, <1>8, <1>9, <1>10, <1>11 DEF x, b, e

-----------------------------------------------------------------------------
(* What a message has cost. *)

Holders(f, id) == {p \in Procs : id \in Known(f[p])}
Spent(f, g, id) == Cardinality(Holders(f, id)) + Cardinality(Holders(g, id))
Paid(m, f, g) == m.ttl + Spent(f, g, m.id) >= net.ttl
Fresh(q, f, g) == \A k \in 1..Len(q) : Paid(q[k], f, g)

\* Those who have had a message are processes, finitely many.
LEMMA HoldersFinite ==
  ASSUME NEW f, NEW id
  PROVE  /\ IsFiniteSet(Holders(f, id)) /\ Cardinality(Holders(f, id)) \in Nat
         /\ Cardinality(Holders(f, id)) =< Cardinality(Procs) /\ Cardinality(Procs) \in Nat
<1>1. Holders(f, id) \subseteq Procs
  BY DEF Holders
<1>2. IsFiniteSet(Holders(f, id)) /\ Cardinality(Holders(f, id)) =< Cardinality(Procs)
  BY <1>1, ProcsAssumption, FS_Subset
<1> QED BY <1>2, ProcsAssumption, FS_CardinalityType

\* They grow in number as caches grow.
LEMMA HoldersGrow ==
  ASSUME NEW f, NEW g, \A p \in Procs : Known(f[p]) \subseteq Known(g[p]), NEW id
  PROVE  /\ Cardinality(Holders(f, id)) =< Cardinality(Holders(g, id))
         /\ \A p \in Procs : id \notin Known(f[p]) /\ id \in Known(g[p]) =>
              Cardinality(Holders(f, id)) + 1 =< Cardinality(Holders(g, id))
<1>1. Holders(f, id) \subseteq Holders(g, id)
  BY DEF Holders
<1>2. IsFiniteSet(Holders(f, id)) /\ IsFiniteSet(Holders(g, id))
      /\ Cardinality(Holders(f, id)) \in Nat
  BY HoldersFinite
<1>3. Cardinality(Holders(f, id)) =< Cardinality(Holders(g, id))
  BY <1>1, <1>2, FS_Subset
<1>4. ASSUME NEW p \in Procs, id \notin Known(f[p]), id \in Known(g[p])
      PROVE  Cardinality(Holders(f, id)) + 1 =< Cardinality(Holders(g, id))
  <2>1. p \notin Holders(f, id) /\ p \in Holders(g, id)
    BY <1>4 DEF Holders
  <2>2. Cardinality(Holders(f, id) \cup {p}) = Cardinality(Holders(f, id)) + 1
    BY <1>2, <2>1, FS_AddElement
  <2>3. Holders(f, id) \cup {p} \subseteq Holders(g, id)
    BY <1>1, <2>1
  <2>4. Cardinality(Holders(f, id) \cup {p}) =< Cardinality(Holders(g, id))
    BY <1>2, <2>3, FS_Subset
  <2> QED BY <2>2, <2>4
<1> QED BY <1>3, <1>4

\* Each process spends at most 2 of the ttl of a message: one in its group, one in its client.
LEMMA SpentIsNat ==
  ASSUME NEW f, NEW g, NEW id
  PROVE  Spent(f, g, id) \in Nat /\ Spent(f, g, id) =< Cardinality(Procs) + Cardinality(Procs)
         /\ Cardinality(Procs) \in Nat
BY HoldersFinite DEF Spent

\* A message has cost more after a group or a client has taken it.
LEMMA SpentGrows ==
  ASSUME NEW f, NEW g, NEW h, NEW i,
         \A p \in Procs : Known(f[p]) \subseteq Known(h[p]),
         \A p \in Procs : Known(g[p]) \subseteq Known(i[p]), NEW id
  PROVE  /\ Spent(f, g, id) =< Spent(h, i, id)
         /\ \A p \in Procs : (id \notin Known(f[p]) /\ id \in Known(h[p]))
                               \/ (id \notin Known(g[p]) /\ id \in Known(i[p]))
              => Spent(f, g, id) + 1 =< Spent(h, i, id)
<1>1. /\ Cardinality(Holders(f, id)) \in Nat /\ Cardinality(Holders(g, id)) \in Nat
      /\ Cardinality(Holders(h, id)) \in Nat /\ Cardinality(Holders(i, id)) \in Nat
  BY HoldersFinite
<1>2. Cardinality(Holders(f, id)) =< Cardinality(Holders(h, id))
      /\ Cardinality(Holders(g, id)) =< Cardinality(Holders(i, id))
  BY HoldersGrow
<1>3. ASSUME NEW p \in Procs, id \notin Known(f[p]), id \in Known(h[p])
      PROVE  Cardinality(Holders(f, id)) + 1 =< Cardinality(Holders(h, id))
  BY <1>3, HoldersGrow
<1>4. ASSUME NEW p \in Procs, id \notin Known(g[p]), id \in Known(i[p])
      PROVE  Cardinality(Holders(g, id)) + 1 =< Cardinality(Holders(i, id))
  BY <1>4, HoldersGrow
<1> QED BY <1>1, <1>2, <1>3, <1>4 DEF Spent

\* A queue stays paid for while caches grow.
LEMMA FreshGrows ==
  ASSUME net.ttl \in Nat, NEW f, NEW g, NEW h, NEW i,
         \A p \in Procs : Known(f[p]) \subseteq Known(h[p]),
         \A p \in Procs : Known(g[p]) \subseteq Known(i[p]),
         NEW q \in Seq(Message), Fresh(q, f, g)
  PROVE  Fresh(q, h, i)
<1> SUFFICES ASSUME NEW k \in 1..Len(q) PROVE Paid(q[k], h, i)
  BY DEF Fresh
<1>1. q[k] \in Message /\ Paid(q[k], f, g)
  BY DEF Fresh
<1>2. q[k].ttl \in Int
  BY <1>1 DEF Message
<1>3. Spent(f, g, q[k].id) =< Spent(h, i, q[k].id) /\ Spent(f, g, q[k].id) \in Nat
      /\ Spent(h, i, q[k].id) \in Nat
  BY SpentGrows, SpentIsNat
<1> QED BY <1>1, <1>2, <1>3 DEF Paid

\* It takes a message that is paid for.
LEMMA FreshAppend ==
  ASSUME NEW f, NEW g, NEW q \in Seq(Message), NEW m \in Message, Fresh(q, f, g), Paid(m, f, g)
  PROVE  Fresh(Append(q, m), f, g)
<1> DEFINE r == Append(q, m)
<1>1. /\ Len(r) = Len(q) + 1 /\ r[Len(q) + 1] = m /\ \A k \in 1..Len(q) : r[k] = q[k]
      /\ \A k \in 1..(Len(q) + 1) : k \in 1..Len(q) \/ k = Len(q) + 1
  BY AppendIs
<1> HIDE DEF r
<1> QED BY <1>1 DEF Fresh, r

\* It gives one that is.
LEMMA FreshTail ==
  ASSUME NEW f, NEW g, NEW q \in Seq(Message), q # <<>>, Fresh(q, f, g)
  PROVE  Fresh(Tail(q), f, g) /\ Paid(Head(q), f, g)
<1> DEFINE r == Tail(q)
<1>1. /\ Len(r) = Len(q) - 1 /\ Head(q) = q[1] /\ 1 \in 1..Len(q)
      /\ \A k \in 1..(Len(q) - 1) : r[k] = q[k + 1] /\ k + 1 \in 1..Len(q)
  BY TailIs
<1> HIDE DEF r
<1> QED BY <1>1 DEF Fresh, r

-----------------------------------------------------------------------------
(* Types. *)

\* Lists of numbers, and queues, of each process, that hold numbers of N alone.
Lists(f, N)  == f \in [Procs -> Seq(Nat)] /\ \A p \in Procs : Known(f[p]) \subseteq N
Queues(f, N) == f \in [Procs -> Seq(Message)] /\ \A p \in Procs : Ids(f[p]) \subseteq N

NType ==
  /\ net \in Nets /\ open \subseteq Procs /\ \A p \in open : HasClient(p)
  /\ said \in Seq(Line) /\ Len(said) =< MaxSaid
  /\ Lists(cache, DOMAIN said) /\ Lists(ccache, DOMAIN said) /\ Lists(shown, DOMAIN said)
  /\ Queues(recent, DOMAIN said) /\ Queues(posts, DOMAIN said)
  /\ Queues(up, DOMAIN said) /\ Queues(down, DOMAIN said)

\* What a network is.
LEMMA NetIs ==
  ASSUME net \in Nets
  PROVE  /\ net.target \in [Procs -> Procs \cup {None}]
         /\ net.ttl \in Nat /\ net.cache \in Nat /\ net.recent \in Nat
BY NetAssumption

\* send_msg takes 1 from the ttl.
LEMMA FewerIs ==
  ASSUME NEW m \in Message
  PROVE  Fewer(m) \in Message /\ Fewer(m).id = m.id /\ Fewer(m).ttl = m.ttl - 1
BY DEF Fewer, Message

\* What k holds, l holds.
Within(k, l) == \A i \in 1..Len(k) : \E j \in 1..Len(l) : k[i] = l[j]

\* Keep appends, and drops only from the front.
LEMMA KeepIs ==
  ASSUME NEW S, NEW list \in Seq(S), NEW x \in S, NEW max \in Nat
  PROVE  /\ Keep(list, x, max) \in Seq(S)
         /\ Within(Keep(list, x, max), Append(list, x))
         /\ Len(list) + 1 =< max => Keep(list, x, max) = Append(list, x)
<1> DEFINE l == Append(list, x)
<1>1. l \in Seq(S) /\ Len(l) = Len(list) + 1 /\ Len(list) \in Nat
  OBVIOUS
<1> HIDE DEF l
<1>2. CASE Len(l) > max
  <2> DEFINE a == Len(l) - max + 1
  <2>1. a \in 1..(Len(l) + 1) /\ Len(l) \in Nat /\ Keep(list, x, max) = SubSeq(l, a, Len(l))
    BY <1>1, <1>2 DEF Keep, l
  <2> HIDE DEF a
  <2>2. /\ SubSeq(l, a, Len(l)) \in Seq(S)
        /\ Len(SubSeq(l, a, Len(l))) = IF a =< Len(l) THEN Len(l) - a + 1 ELSE 0
        /\ \A k \in 1..Len(SubSeq(l, a, Len(l))) : SubSeq(l, a, Len(l))[k] = l[a + k - 1]
    BY <1>1, <2>1
  <2>3. \A k \in 1..Len(SubSeq(l, a, Len(l))) : a + k - 1 \in 1..Len(l)
    BY <2>1, <2>2
  <2>4. ~(Len(list) + 1 =< max)
    BY <1>1, <1>2
  <2> QED BY <2>1, <2>2, <2>3, <2>4 DEF l, Within
<1>3. CASE ~(Len(l) > max)
  <2>1. Keep(list, x, max) = l
    BY <1>3 DEF Keep, l
  <2> QED BY <1>1, <2>1 DEF l, Within
<1> QED BY <1>2, <1>3

\* MessageCache::add knows nothing but the new one and what it knew.
LEMMA KeepKnown ==
  ASSUME NEW list \in Seq(Nat), NEW x \in Nat, NEW max \in Nat
  PROVE  Keep(list, x, max) \in Seq(Nat) /\ Known(Keep(list, x, max)) \subseteq Known(list) \cup {x}
<1> DEFINE K == Keep(list, x, max)
<1> DEFINE l == Append(list, x)
<1>1. K \in Seq(Nat) /\ \A k \in 1..Len(K) : \E j \in 1..Len(l) : K[k] = l[j]
  <2>1. Keep(list, x, max) \in Seq(Nat) /\ Within(Keep(list, x, max), Append(list, x))
    BY KeepIs
  <2> QED BY <2>1 DEF Within
<1>2. Known(l) = Known(list) \cup {x}
  BY KnownAppend
<1>3. DOMAIN K = 1..Len(K) /\ DOMAIN l = 1..Len(l)
  BY <1>1
<1> HIDE DEF K, l
<1>4. Known(K) \subseteq Known(l)
  BY <1>1, <1>3 DEF Known
<1> QED BY <1>1, <1>2, <1>4 DEF K

\* Group::recent_msg holds nothing but the new one and what it held.
LEMMA KeepIds ==
  ASSUME NEW list \in Seq(Message), NEW x \in Message, NEW max \in Nat
  PROVE  Keep(list, x, max) \in Seq(Message) /\ Ids(Keep(list, x, max)) \subseteq Ids(list) \cup {x.id}
<1> DEFINE K == Keep(list, x, max)
<1> DEFINE l == Append(list, x)
<1>1. K \in Seq(Message) /\ \A k \in 1..Len(K) : \E j \in 1..Len(l) : K[k] = l[j]
  <2>1. Keep(list, x, max) \in Seq(Message) /\ Within(Keep(list, x, max), Append(list, x))
    BY KeepIs
  <2> QED BY <2>1 DEF Within
<1>2. Ids(l) = Ids(list) \cup {x.id}
  BY IdsAppend
<1>3. DOMAIN K = 1..Len(K) /\ DOMAIN l = 1..Len(l)
  BY <1>1
<1> HIDE DEF K, l
<1>4. Ids(K) \subseteq Ids(l)
  BY <1>1, <1>3 DEF Ids
<1> QED BY <1>1, <1>2, <1>4 DEF K

\* A message that was said may be put on a queue.
LEMMA QueuePut ==
  ASSUME NEW N, NEW f, Queues(f, N), NEW m \in Message, m.id \in N, NEW p \in Procs
  PROVE  Queues([f EXCEPT ![p] = Append(@, m)], N)
<1> DEFINE g == [f EXCEPT ![p] = Append(@, m)]
<1>1. f \in [Procs -> Seq(Message)]
  BY DEF Queues
<1>2. g \in [Procs -> Seq(Message)] /\ \A q \in Procs : g[q] = IF q = p THEN Append(f[p], m) ELSE f[q]
  BY <1>1
<1> HIDE DEF g
<1>3. Ids(Append(f[p], m)) = Ids(f[p]) \cup {m.id}
  BY <1>1, IdsAppend
<1> QED BY <1>2, <1>3 DEF Queues, g

\* What is taken from a queue was said.
LEMMA QueueGet ==
  ASSUME NEW N, NEW f, Queues(f, N), NEW p \in Procs, f[p] # <<>>
  PROVE  /\ Queues([f EXCEPT ![p] = Tail(@)], N)
         /\ Head(f[p]) \in Message /\ Head(f[p]).id \in N
<1> DEFINE g == [f EXCEPT ![p] = Tail(@)]
<1>1. f \in [Procs -> Seq(Message)]
  BY DEF Queues
<1>2. Tail(f[p]) \in Seq(Message) /\ Head(f[p]) \in Message
  BY <1>1, TailIs
<1>3. g \in [Procs -> Seq(Message)] /\ \A q \in Procs : g[q] = IF q = p THEN Tail(f[p]) ELSE f[q]
  BY <1>1, <1>2
<1> HIDE DEF g
<1>4. Ids(f[p]) = {Head(f[p]).id} \cup Ids(Tail(f[p]))
  BY <1>1, IdsTail
<1> QED BY <1>2, <1>3, <1>4 DEF Queues, g

\* Group::broadcast passes on what was said.
LEMMA BroadcastTyped ==
  ASSUME NEW N, net \in Nets, Lists(cache, N), Queues(recent, N), open \subseteq Procs,
         NEW ps, Queues(ps, N), NEW ds, Queues(ds, N),
         NEW p \in Procs, NEW m \in Message, m.id \in N, broadcast(p, m, ps, ds)
  PROVE  Lists(cache', N) /\ Queues(recent', N) /\ Queues(posts', N) /\ Queues(down', N)
<1>1. CASE ~Passes(p, m)
  <2>1. down' = ds /\ posts' = ps /\ cache' = cache /\ recent' = recent
    BY <1>1 DEF broadcast, group
  <2> QED BY <2>1
<1>2. CASE Passes(p, m)
  <2>0. /\ cache \in [Procs -> Seq(Nat)] /\ recent \in [Procs -> Seq(Message)]
        /\ ds \in [Procs -> Seq(Message)]
        /\ Fewer(m) \in Message /\ Fewer(m).id = m.id /\ m.id \in Nat
        /\ net.cache \in Nat /\ net.recent \in Nat
    BY FewerIs, NetIs DEF Lists, Queues, Message
  <2>1. /\ cache' = [cache EXCEPT ![p] = Keep(@, m.id, net.cache)]
        /\ down' = [c \in Procs |-> IF c \in members(p) THEN Append(ds[c], Fewer(m)) ELSE ds[c]]
        /\ posts' = IF HasClient(p) THEN [ps EXCEPT ![p] = Append(@, Fewer(m))] ELSE ps
        /\ recent' = [recent EXCEPT ![p] = Keep(@, Fewer(m), net.recent)]
    BY <1>2 DEF broadcast
  <2>2. Queues(posts', N)
    BY <2>0, <2>1, QueuePut
  <2>3. Lists(cache', N)
    <3>1. /\ Keep(cache[p], m.id, net.cache) \in Seq(Nat)
          /\ Known(Keep(cache[p], m.id, net.cache)) \subseteq Known(cache[p]) \cup {m.id}
      BY <2>0, KeepKnown
    <3>2. /\ cache' \in [Procs -> Seq(Nat)]
          /\ \A q \in Procs : cache'[q] = IF q = p THEN Keep(cache[p], m.id, net.cache) ELSE cache[q]
      BY <2>0, <2>1, <3>1
    <3> QED BY <3>1, <3>2 DEF Lists
  <2>4. Queues(recent', N)
    <3>1. /\ Keep(recent[p], Fewer(m), net.recent) \in Seq(Message)
          /\ Ids(Keep(recent[p], Fewer(m), net.recent)) \subseteq Ids(recent[p]) \cup {m.id}
      BY <2>0, KeepIds
    <3>2. /\ recent' \in [Procs -> Seq(Message)]
          /\ \A q \in Procs : recent'[q] = IF q = p THEN Keep(recent[p], Fewer(m), net.recent) ELSE recent[q]
      BY <2>0, <2>1, <3>1
    <3> QED BY <3>1, <3>2 DEF Queues
  <2>5. Queues(down', N)
    <3>1. \A c \in Procs : /\ Append(ds[c], Fewer(m)) \in Seq(Message)
                           /\ Ids(Append(ds[c], Fewer(m))) = Ids(ds[c]) \cup {m.id}
      BY <2>0, IdsAppend, AppendIs
    <3>2. /\ down' \in [Procs -> Seq(Message)]
          /\ \A q \in Procs : down'[q] = IF q \in members(p) THEN Append(ds[q], Fewer(m)) ELSE ds[q]
      BY <2>0, <2>1, <3>1
    <3> QED BY <3>1, <3>2 DEF Queues
  <2> QED BY <2>2, <2>3, <2>4, <2>5
<1> QED BY <1>1, <1>2

\* What the types say of the queues.
LEMMA Shapes ==
  ASSUME NType
  PROVE  /\ cache \in [Procs -> Seq(Nat)] /\ ccache \in [Procs -> Seq(Nat)] /\ shown \in [Procs -> Seq(Nat)]
         /\ recent \in [Procs -> Seq(Message)] /\ posts \in [Procs -> Seq(Message)]
         /\ up \in [Procs -> Seq(Message)] /\ down \in [Procs -> Seq(Message)]
         /\ DOMAIN said = 1..Len(said) /\ Len(said) \in Nat
BY DEF NType, Lists, Queues

\* A cache or a display takes a number that was said.
LEMMA ListPut ==
  ASSUME NEW N, NEW f, Lists(f, N), NEW x \in Nat, x \in N, NEW max \in Nat, NEW p \in Procs
  PROVE  /\ Lists([f EXCEPT ![p] = Keep(@, x, max)], N)
         /\ Lists([f EXCEPT ![p] = Append(@, x)], N)
<1>1. f \in [Procs -> Seq(Nat)] /\ f[p] \in Seq(Nat)
  BY DEF Lists
<1>2. Keep(f[p], x, max) \in Seq(Nat) /\ Known(Keep(f[p], x, max)) \subseteq Known(f[p]) \cup {x}
  BY <1>1, KeepKnown
<1>3. Append(f[p], x) \in Seq(Nat) /\ Known(Append(f[p], x)) = Known(f[p]) \cup {x}
  BY <1>1, KnownAppend, AppendIs
<1>4. ASSUME NEW s \in Seq(Nat), Known(s) \subseteq Known(f[p]) \cup {x}
      PROVE  Lists([f EXCEPT ![p] = s], N)
  <2> DEFINE g == [f EXCEPT ![p] = s]
  <2>1. g \in [Procs -> Seq(Nat)] /\ \A q \in Procs : g[q] = IF q = p THEN s ELSE f[q]
    BY <1>1
  <2> HIDE DEF g
  <2> QED BY <1>4, <2>1 DEF Lists, g
<1> QED BY <1>2, <1>3, <1>4

\* What was said stays said, under its number.
LEMMA SaidMore ==
  ASSUME NType, NEW x \in Line
  PROVE  /\ Append(said, x) \in Seq(Line) /\ Len(Append(said, x)) = Len(said) + 1
         /\ DOMAIN said \subseteq DOMAIN Append(said, x)
         /\ Len(said) + 1 \in DOMAIN Append(said, x) /\ Len(said) + 1 \in Nat
         /\ Len(said) + 1 \notin DOMAIN said
         /\ Append(said, x)[Len(said) + 1] = x
         /\ \A n \in DOMAIN said : Append(said, x)[n] = said[n]
<1>1. said \in Seq(Line) /\ Len(said) \in Nat /\ DOMAIN said = 1..Len(said)
  BY DEF NType
<1> DEFINE v == Append(said, x)
<1>2. /\ v \in Seq(Line) /\ Len(v) = Len(said) + 1 /\ DOMAIN v = 1..(Len(said) + 1)
      /\ v[Len(said) + 1] = x /\ \A k \in 1..Len(said) : v[k] = said[k]
  BY <1>1, AppendIs
<1>3. \A n \in Nat : 1..n \subseteq 1..(n + 1) /\ n + 1 \in 1..(n + 1) /\ n + 1 \notin 1..n
  OBVIOUS
<1> HIDE DEF v
<1> QED BY <1>1, <1>2, <1>3 DEF v

\* A line that is typed is the last one said (main).
LEMMA TypeType ==
  ASSUME NType, NEW p \in Procs, Type(p)
  PROVE  /\ NType'
         /\ \E x \in Line :
              /\ x = [by |-> p, after |-> Known(shown[p]) \cup {n \in DOMAIN said : said[n].by = p}]
              /\ said' = Append(said, x) /\ x.by = p
              /\ x.after = Known(shown[p]) \cup {n \in DOMAIN said : said[n].by = p}
<1> DEFINE x == [by |-> p, after |-> Known(shown[p]) \cup {n \in DOMAIN said : said[n].by = p}]
<1>1. /\ said' = Append(said, x) /\ Len(said) < MaxSaid /\ HasClient(p)
      /\ posts' = [posts EXCEPT ![p] = Append(@, [id |-> Len(said) + 1, ttl |-> net.ttl])]
      /\ UNCHANGED <<net, open, cache, recent, ccache, up, down, shown>>
  BY DEF Type, group
<1>2. x \in Line
  <2>1. Known(shown[p]) \subseteq DOMAIN said /\ DOMAIN said \subseteq Nat
    BY Shapes DEF NType, Lists
  <2> QED BY <2>1 DEF Line
<1>3. x.by = p /\ x.after = Known(shown[p]) \cup {n \in DOMAIN said : said[n].by = p}
  OBVIOUS
<1> HIDE DEF x
<1>4. /\ said' \in Seq(Line) /\ Len(said') = Len(said) + 1
      /\ DOMAIN said \subseteq DOMAIN said' /\ Len(said) + 1 \in DOMAIN said' /\ Len(said) + 1 \in Nat
  BY <1>1, <1>2, SaidMore
<1>5. Len(said') =< MaxSaid
  BY <1>1, <1>4, Shapes, SaidAssumption
<1>6. \A f : Lists(f, DOMAIN said) => Lists(f, DOMAIN said')
  BY <1>4 DEF Lists
<1>7. \A f : Queues(f, DOMAIN said) => Queues(f, DOMAIN said')
  BY <1>4 DEF Queues
<1>8. Queues(posts', DOMAIN said')
  <2>1. Queues(posts, DOMAIN said')
    BY <1>7 DEF NType
  <2> DEFINE m == [id |-> Len(said) + 1, ttl |-> net.ttl]
  <2>2. m \in Message /\ m.id = Len(said) + 1
    <3>1. net.ttl \in Int
      BY NetIs DEF NType
    <3> QED BY <1>4, <3>1 DEF Message
  <2> HIDE DEF m
  <2>3. Queues([posts EXCEPT ![p] = Append(@, m)], DOMAIN said')
    BY <1>4, <2>1, <2>2, QueuePut
  <2> QED BY <1>1, <2>3 DEF m
<1>9. NType'
  BY <1>1, <1>4, <1>5, <1>6, <1>7, <1>8 DEF NType, HasClient
<1> QED BY <1>1, <1>2, <1>3, <1>9 DEF x

\* A connection begins with the recent messages of its group (Group::join).
LEMMA TypeConnect ==
  ASSUME NType, NEW p \in Procs, Connect(p)
  PROVE  NType'
<1>1. /\ HasClient(p) /\ open' = open \cup {p} /\ down' = [down EXCEPT ![p] = recent[net.target[p]]]
      /\ UNCHANGED <<net, cache, recent, ccache, posts, up, said, shown>>
  BY DEF Connect, group
<1>2. net.target[p] \in Procs
  BY <1>1, NetIs DEF NType, HasClient
<1>3. /\ recent[net.target[p]] \in Seq(Message) /\ Ids(recent[net.target[p]]) \subseteq DOMAIN said
  BY <1>2 DEF NType, Queues
<1>4. Queues(down', DOMAIN said)
  <2>1. down' \in [Procs -> Seq(Message)]
        /\ \A q \in Procs : down'[q] = IF q = p THEN recent[net.target[p]] ELSE down[q]
    BY <1>1, <1>3, Shapes
  <2> QED BY <1>3, <2>1 DEF NType, Queues
<1> QED BY <1>1, <1>4 DEF NType, HasClient

\* A client passes its message to its group and its target (Client::send).
LEMMA TypeOnPost ==
  ASSUME NType, NEW p \in Procs, OnPost(p)
  PROVE  NType'
<1>1. PICK m \in Message : m = Head(posts[p]) /\ m.id \in DOMAIN said
  BY QueueGet DEF NType, OnPost
<1>2. /\ broadcast(p, m, [posts EXCEPT ![p] = Tail(@)], down)
      /\ up' = [up EXCEPT ![p] = Append(@, m)] /\ posts[p] # <<>>
      /\ UNCHANGED <<net, open, ccache, said, shown>>
  BY <1>1 DEF OnPost
<1>3. Queues([posts EXCEPT ![p] = Tail(@)], DOMAIN said)
  BY <1>2, QueueGet DEF NType
<1>4. Queues(up', DOMAIN said)
  BY <1>1, <1>2, QueuePut DEF NType
<1>5. Lists(cache', DOMAIN said) /\ Queues(recent', DOMAIN said) /\ Queues(posts', DOMAIN said)
      /\ Queues(down', DOMAIN said)
  BY <1>1, <1>2, <1>3, BroadcastTyped DEF NType
<1> QED BY <1>2, <1>4, <1>5 DEF NType, HasClient

\* A session passes what it reads to its group (Session::do_read).
LEMMA TypeOnRead ==
  ASSUME NType, NEW c \in Procs, OnRead(c)
  PROVE  NType'
<1>1. PICK m \in Message : m = Head(up[c]) /\ m.id \in DOMAIN said
  BY QueueGet DEF NType, OnRead
<1>2. /\ broadcast(net.target[c], m, posts, down)
      /\ up' = [up EXCEPT ![c] = Tail(@)] /\ up[c] # <<>> /\ c \in open
      /\ UNCHANGED <<net, open, ccache, said, shown>>
  BY <1>1 DEF OnRead
<1>3. net.target[c] \in Procs
  BY <1>2, NetIs DEF NType, HasClient
<1>4. Queues(up', DOMAIN said)
  BY <1>2, QueueGet DEF NType
<1>5. Lists(cache', DOMAIN said) /\ Queues(recent', DOMAIN said) /\ Queues(posts', DOMAIN said)
      /\ Queues(down', DOMAIN said)
  BY <1>1, <1>2, <1>3, BroadcastTyped DEF NType
<1> QED BY <1>2, <1>4, <1>5 DEF NType, HasClient

\* A client passes what it reads to its display and its group (Client::do_read).
LEMMA TypeOnCRead ==
  ASSUME NType, NEW p \in Procs, OnCRead(p)
  PROVE  NType'
<1>1. PICK m \in Message : m = Head(down[p]) /\ m.id \in DOMAIN said /\ m.id \in Nat
  <2>1. Head(down[p]) \in Message /\ Head(down[p]).id \in DOMAIN said
    BY QueueGet DEF NType, OnCRead
  <2> QED BY <2>1 DEF Message
<1>2. Queues([down EXCEPT ![p] = Tail(@)], DOMAIN said) /\ down[p] # <<>>
  BY QueueGet DEF NType, OnCRead
<1>3. UNCHANGED <<net, open, up, said>>
  BY DEF OnCRead
<1>4. CASE m.ttl > 0 /\ m.id \notin Known(ccache[p])
  <2>1. /\ ccache' = [ccache EXCEPT ![p] = Keep(@, m.id, net.cache)]
        /\ shown' = [shown EXCEPT ![p] = Append(@, m.id)]
        /\ IF m.ttl - 1 > 0 THEN broadcast(p, Fewer(m), posts, [down EXCEPT ![p] = Tail(@)])
           ELSE down' = [down EXCEPT ![p] = Tail(@)] /\ UNCHANGED <<posts, group>>
    BY <1>1, <1>4 DEF OnCRead
  <2>2. Lists(ccache', DOMAIN said) /\ Lists(shown', DOMAIN said)
    BY <1>1, <2>1, ListPut, NetIs DEF NType
  <2>3. Lists(cache', DOMAIN said) /\ Queues(recent', DOMAIN said) /\ Queues(posts', DOMAIN said)
        /\ Queues(down', DOMAIN said)
    <3>1. CASE m.ttl - 1 > 0
      BY <1>1, <1>2, <2>1, <3>1, FewerIs, BroadcastTyped DEF NType
    <3>2. CASE ~(m.ttl - 1 > 0)
      BY <1>2, <2>1, <3>2 DEF NType, group
    <3> QED BY <3>1, <3>2
  <2> QED BY <1>3, <2>2, <2>3 DEF NType, HasClient
<1>5. CASE ~(m.ttl > 0 /\ m.id \notin Known(ccache[p]))
  <2>1. down' = [down EXCEPT ![p] = Tail(@)] /\ UNCHANGED <<ccache, shown, posts, cache, recent>>
    BY <1>1, <1>5 DEF OnCRead, group
  <2> QED BY <1>2, <1>3, <2>1 DEF NType, HasClient
<1> QED BY <1>4, <1>5

\* A network begins with nothing said.
LEMMA TypeInit == Init => NType
<1> SUFFICES ASSUME Init PROVE NType
  OBVIOUS
<1>1. said = <<>> /\ said \in Seq(Line) /\ Len(said) = 0 /\ DOMAIN said = {}
  BY DEF Init
<1>2. Ids(<<>>) = {} /\ Known(<<>>) = {}
  BY DEF Ids, Known
<1>3. Lists([p \in Procs |-> <<>>], {}) /\ Queues([p \in Procs |-> <<>>], {})
  BY <1>2 DEF Lists, Queues
<1>4. open \subseteq Procs /\ \A p \in open : HasClient(p)
  BY DEF Init
<1> QED BY <1>1, <1>3, <1>4, SaidAssumption DEF Init, NType

\* Every step keeps the types.
LEMMA TypeNext == ASSUME NType, [Next]_vars PROVE NType'
<1>1. ASSUME NEW p \in Procs, Type(p) \/ Connect(p) \/ Handler(p) PROVE NType'
  BY <1>1, TypeType, TypeConnect, TypeOnPost, TypeOnRead, TypeOnCRead DEF Handler
<1>2. CASE UNCHANGED vars
  BY <1>2 DEF vars, group, queues, NType, HasClient
<1> QED BY <1>1, <1>2 DEF Next

-----------------------------------------------------------------------------
(* The invariant of a roomy network. *)

Target(p) == net.target[p]
By(p) == {n \in DOMAIN said : said[n].by = p}

\* Of the caches alone: nothing is forgotten, told twice, or told too early.
Caches ==
  \A p \in Procs :
    /\ Distinct(cache[p]) /\ Closed(said, cache[p])
    /\ Len(recent[p]) = Len(cache[p])
    /\ \A k \in 1..Len(cache[p]) : recent[p][k].id = cache[p][k]

\* The numbers that the group of q has, with x on its way into the one of p.
Has(p, x, q) == Known(cache[q]) \cup (IF q = p THEN {x} ELSE {})

\* Of the queues, with x on its way into the group of p: what is in them, behind what.
Flows(p, x, cc, ps, us, ds) ==
  \A q \in Procs :
    /\ Known(cc[q]) \subseteq Has(p, x, q)
    /\ By(q) \subseteq Has(p, x, q) \cup Ids(ps[q])
    /\ Ordered(said, ps[q], Has(p, x, q))
    /\ q \notin open => ds[q] = <<>> /\ cc[q] = <<>>
    /\ ~HasClient(q) => ps[q] = <<>> /\ us[q] = <<>>
    /\ HasClient(q) =>
         /\ Known(cache[q]) \subseteq Has(p, x, Target(q)) \cup Ids(us[q]) \cup Ids(ps[q])
         /\ Ordered(said, us[q], Has(p, x, Target(q)))
         /\ Ordered(said, ps[q], Has(p, x, Target(q)) \cup Ids(us[q]))
    /\ q \in open => Streams(cache[Target(q)], cc[q], ds[q])

\* Of the ttls.
Costs(cc, ps, us, ds) ==
  \A q \in Procs : /\ Fresh(recent[q], cache, cc) /\ Fresh(ps[q], cache, cc)
                   /\ Fresh(us[q], cache, cc) /\ Fresh(ds[q], cache, cc)

RInv ==
  /\ Caches
  /\ \A q \in Procs :
       /\ Known(ccache[q]) \subseteq Known(cache[q])
       /\ By(q) \subseteq Known(cache[q]) \cup Ids(posts[q])
       /\ Ordered(said, posts[q], Known(cache[q]))
       /\ q \notin open => down[q] = <<>> /\ ccache[q] = <<>>
       /\ ~HasClient(q) => posts[q] = <<>> /\ up[q] = <<>>
       /\ HasClient(q) =>
            /\ Known(cache[q]) \subseteq Known(cache[Target(q)]) \cup Ids(up[q]) \cup Ids(posts[q])
            /\ Ordered(said, up[q], Known(cache[Target(q)]))
            /\ Ordered(said, posts[q], Known(cache[Target(q)]) \cup Ids(up[q]))
       /\ q \in open => Streams(cache[Target(q)], ccache[q], down[q])
  /\ Costs(ccache, posts, up, down)
  /\ shown = ccache

\* In a roomy network a message on its way has ttl enough to be passed on, and
\* the caches have room for it.
LEMMA RoomyTtl ==
  ASSUME NType, Roomy, NEW p \in Procs, NEW m \in Message, NEW f, NEW g, Paid(m, f, g)
  PROVE  m.ttl - 1 > 0 /\ m.ttl > 0
<1>1. Spent(f, g, m.id) \in Nat /\ Spent(f, g, m.id) =< Cardinality(Procs) + Cardinality(Procs)
      /\ Cardinality(Procs) \in Nat
  BY SpentIsNat
<1>2. Cardinality(Procs) >= 1
  <2>1. Cardinality(Procs) # 0
    BY ProcsAssumption, FS_EmptySet
  <2> QED BY <1>1, <2>1
<1>3. m.ttl \in Int /\ net.ttl \in Nat
  BY NetIs DEF NType, Message
<1> QED BY <1>1, <1>2, <1>3 DEF Paid, Roomy

\* Caches that can hold all that is typed drop nothing.
LEMMA RoomyKeep ==
  ASSUME NType, Roomy, Caches, NEW p \in Procs, NEW x \in DOMAIN said, x \notin Known(cache[p]),
         NEW m \in Message
  PROVE  /\ Keep(cache[p], x, net.cache) = Append(cache[p], x)
         /\ Keep(recent[p], m, net.recent) = Append(recent[p], m)
<1>1. /\ cache[p] \in Seq(Nat) /\ recent[p] \in Seq(Message) /\ x \in Nat /\ Len(said) \in Nat
      /\ DOMAIN said = 1..Len(said) /\ Len(said) =< MaxSaid
  BY Shapes DEF NType
<1>2. Distinct(Append(cache[p], x)) /\ Append(cache[p], x) \in Seq(Nat)
  BY <1>1, DistinctAppend, AppendIs DEF Caches
<1>3. Known(Append(cache[p], x)) \subseteq 1..Len(said)
  <2>1. Known(Append(cache[p], x)) = Known(cache[p]) \cup {x}
    BY <1>1, KnownAppend
  <2>2. Known(cache[p]) \subseteq DOMAIN said
    BY DEF NType, Lists
  <2> QED BY <1>1, <2>1, <2>2
<1>4. Len(Append(cache[p], x)) =< Len(said)
  BY <1>1, <1>2, <1>3, DistinctLen
<1>5. Len(Append(cache[p], x)) = Len(cache[p]) + 1 /\ Len(cache[p]) \in Nat
  BY <1>1, AppendIs
<1>6. net.cache \in Nat /\ net.recent \in Nat /\ net.cache >= MaxSaid /\ net.recent >= MaxSaid
  BY NetIs DEF NType, Roomy
<1>7. Len(cache[p]) + 1 =< net.cache /\ Len(recent[p]) + 1 =< net.recent
  BY <1>1, <1>4, <1>5, <1>6, SaidAssumption DEF Caches
<1>8. Keep(cache[p], x, net.cache) = Append(cache[p], x)
  <2>1. \A list \in Seq(Nat), y \in Nat, max \in Nat :
          Len(list) + 1 =< max => Keep(list, y, max) = Append(list, y)
    BY KeepIs
  <2> QED BY <1>1, <1>6, <1>7, <2>1
<1>9. Keep(recent[p], m, net.recent) = Append(recent[p], m)
  <2>1. \A list \in Seq(Message), y \in Message, max \in Nat :
          Len(list) + 1 =< max => Keep(list, y, max) = Append(list, y)
    BY KeepIs
  <2> QED BY <1>1, <1>6, <1>7, <2>1
<1> QED BY <1>8, <1>9

\* A message is dropped by the group that has it, and told by another to its
\* sessions and its client.
Tells(p, m, ps, ds) ==
  \/ /\ m.id \in Known(cache[p])
     /\ cache' = cache /\ recent' = recent /\ posts' = ps /\ down' = ds
  \/ /\ m.id \notin Known(cache[p])
     /\ \A q \in Procs :
          /\ cache'[q] = IF q = p THEN Append(cache[q], m.id) ELSE cache[q]
          /\ recent'[q] = IF q = p THEN Append(recent[q], Fewer(m)) ELSE recent[q]
          /\ posts'[q] = IF q = p /\ HasClient(p) THEN Append(ps[q], Fewer(m)) ELSE ps[q]
          /\ down'[q] = IF q \in open /\ Target(q) = p THEN Append(ds[q], Fewer(m)) ELSE ds[q]

\* That is what Group::broadcast does there.
LEMMA RoomyBroadcast ==
  ASSUME NType, Roomy, Caches, NEW p \in Procs, NEW m \in Message, m.id \in DOMAIN said,
         m.ttl - 1 > 0,
         NEW ps \in [Procs -> Seq(Message)], NEW ds \in [Procs -> Seq(Message)],
         broadcast(p, m, ps, ds)
  PROVE  Tells(p, m, ps, ds)
<1>1. Passes(p, m) <=> m.id \notin Known(cache[p])
  BY DEF Passes
<1>2. CASE ~Passes(p, m)
  <2>1. down' = ds /\ posts' = ps /\ cache' = cache /\ recent' = recent
    BY <1>2 DEF broadcast, group
  <2> QED BY <1>1, <1>2, <2>1 DEF Tells
<1>3. CASE Passes(p, m)
  <2>0. Fewer(m) \in Message
    BY FewerIs
  <2>1. /\ cache' = [cache EXCEPT ![p] = Keep(@, m.id, net.cache)]
        /\ down' = [c \in Procs |-> IF c \in members(p) THEN Append(ds[c], Fewer(m)) ELSE ds[c]]
        /\ posts' = IF HasClient(p) THEN [ps EXCEPT ![p] = Append(@, Fewer(m))] ELSE ps
        /\ recent' = [recent EXCEPT ![p] = Keep(@, Fewer(m), net.recent)]
    BY <1>3 DEF broadcast
  <2>2. /\ Keep(cache[p], m.id, net.cache) = Append(cache[p], m.id)
        /\ Keep(recent[p], Fewer(m), net.recent) = Append(recent[p], Fewer(m))
    BY <1>1, <1>3, <2>0, RoomyKeep
  <2>3. cache \in [Procs -> Seq(Nat)] /\ recent \in [Procs -> Seq(Message)]
    BY Shapes
  <2>4. \A q \in Procs : /\ cache'[q] = IF q = p THEN Append(cache[q], m.id) ELSE cache[q]
                         /\ recent'[q] = IF q = p THEN Append(recent[q], Fewer(m)) ELSE recent[q]
    BY <2>1, <2>2, <2>3
  <2>5. \A q \in Procs :
          posts'[q] = IF q = p /\ HasClient(p) THEN Append(ps[q], Fewer(m)) ELSE ps[q]
    BY <2>1
  <2>6. \A q \in Procs :
          down'[q] = IF q \in open /\ Target(q) = p THEN Append(ds[q], Fewer(m)) ELSE ds[q]
    BY <2>1 DEF members, Target
  <2> QED BY <1>1, <1>3, <2>4, <2>5, <2>6 DEF Tells
<1> QED BY <1>2, <1>3

\* A message that comes after what its author had seen keeps the invariant on
\* its way through Group::broadcast.
LEMMA BroadcastKeeps ==
  ASSUME NType, Roomy, Caches, NEW p \in Procs, NEW m \in Message, m.id \in DOMAIN said,
         NEW cc \in [Procs -> Seq(Nat)], NEW ps \in [Procs -> Seq(Message)],
         NEW us \in [Procs -> Seq(Message)], NEW ds \in [Procs -> Seq(Message)],
         Flows(p, m.id, cc, ps, us, ds), Costs(cc, ps, us, ds), Paid(m, cache, cc),
         said[m.id].after \subseteq Known(cache[p]),
         broadcast(p, m, ps, ds), ccache' = cc, up' = us, shown' = cc,
         UNCHANGED <<net, open, said>>
  PROVE  RInv'
<1>1. /\ Fewer(m) \in Message /\ Fewer(m).id = m.id /\ Fewer(m).ttl = m.ttl - 1
      /\ m.ttl \in Int /\ m.id \in Nat /\ net.ttl \in Nat
  BY FewerIs, NetIs DEF NType, Message
<1>2. cache \in [Procs -> Seq(Nat)] /\ recent \in [Procs -> Seq(Message)]
  BY Shapes
<1>3. \A q \in Procs : Known(Append(cache[q], m.id)) = Known(cache[q]) \cup {m.id}
  BY <1>1, <1>2, KnownAppend
\* The two ways of broadcast as one.
<1>4. PICK new \in BOOLEAN :
        /\ new <=> m.id \notin Known(cache[p])
        /\ \A q \in Procs :
             /\ cache'[q] = IF new /\ q = p THEN Append(cache[q], m.id) ELSE cache[q]
             /\ recent'[q] = IF new /\ q = p THEN Append(recent[q], Fewer(m)) ELSE recent[q]
             /\ posts'[q] = IF new /\ q = p /\ HasClient(p) THEN Append(ps[q], Fewer(m)) ELSE ps[q]
             /\ down'[q] = IF new /\ q \in open /\ Target(q) = p
                           THEN Append(ds[q], Fewer(m)) ELSE ds[q]
  <2>1. m.ttl - 1 > 0
    BY RoomyTtl
  <2>2. Tells(p, m, ps, ds)
    BY <2>1, RoomyBroadcast
  <2> QED BY <2>2 DEF Tells
<1>5. \A q \in Procs : Known(cache'[q]) = Has(p, m.id, q)
  BY <1>3, <1>4 DEF Has
<1>6. \A q \in Procs : Known(cache[q]) \subseteq Known(cache'[q])
  BY <1>5 DEF Has
<1>7. \A q \in Procs : /\ Ids(Append(ps[q], Fewer(m))) = Ids(ps[q]) \cup {m.id}
                       /\ Ids(ps[q]) \subseteq Ids(posts'[q])
  <2>1. \A q \in Procs : Ids(Append(ps[q], Fewer(m))) = Ids(ps[q]) \cup {m.id}
    BY <1>1, IdsAppend
  <2> QED BY <1>4, <2>1
<1>8. \A q \in Procs : /\ HasClient(q)' <=> HasClient(q)
                       /\ Target(q)' = Target(q) /\ By(q)' = By(q)
                       /\ HasClient(q) => Target(q) \in Procs
  BY NetIs DEF HasClient, Target, By, NType
<1>9. Caches'
  <2> SUFFICES ASSUME NEW q \in Procs
               PROVE  /\ Distinct(cache'[q]) /\ Closed(said, cache'[q])
                      /\ Len(recent'[q]) = Len(cache'[q])
                      /\ \A k \in 1..Len(cache'[q]) : recent'[q][k].id = cache'[q][k]
    BY DEF Caches
  <2>1. /\ Distinct(cache[q]) /\ Closed(said, cache[q]) /\ Len(recent[q]) = Len(cache[q])
        /\ \A k \in 1..Len(cache[q]) : recent[q][k].id = cache[q][k]
    BY DEF Caches
  <2>2. CASE ~(new /\ q = p)
    <3>1. cache'[q] = cache[q] /\ recent'[q] = recent[q]
      BY <1>4, <2>2
    <3> QED BY <2>1, <3>1
  <2>3. CASE new /\ q = p
    <3>1. cache'[q] = Append(cache[q], m.id) /\ recent'[q] = Append(recent[q], Fewer(m))
          /\ m.id \notin Known(cache[q])
      BY <1>4, <2>3
    <3>2. Distinct(cache'[q]) /\ Closed(said, cache'[q])
      <4>1. cache[q] \in Seq(Nat) /\ said[m.id].after \subseteq Known(cache[q])
        BY <1>2, <2>3
      <4>2. Distinct(Append(cache[q], m.id))
        BY <1>1, <2>1, <3>1, <4>1, DistinctAppend
      <4>3. Closed(said, Append(cache[q], m.id))
        BY <1>1, <2>1, <4>1, ClosedAppend
      <4> QED BY <3>1, <4>2, <4>3
    <3>3. Streams(cache[q], <<>>, recent[q])
      BY <1>2, <2>1 DEF Streams
    <3>4. Streams(cache'[q], <<>>, recent'[q])
      <4>1. <<>> \in Seq(Nat) /\ cache[q] \in Seq(Nat) /\ recent[q] \in Seq(Message)
        BY <1>2
      <4>2. Streams(Append(cache[q], Fewer(m).id), <<>>, Append(recent[q], Fewer(m)))
        BY <1>1, <3>3, <4>1, StreamsAppend
      <4> QED BY <1>1, <3>1, <4>2
    <3>5. cache'[q] \in Seq(Nat) /\ recent'[q] \in Seq(Message)
      BY <1>1, <1>2, <3>1, AppendIs
    <3> QED BY <3>2, <3>4, <3>5 DEF Streams
  <2> QED BY <2>2, <2>3
<1>10. ASSUME NEW q \in Procs
       PROVE  /\ Known(cc[q]) \subseteq Known(cache'[q])
              /\ By(q) \subseteq Known(cache'[q]) \cup Ids(posts'[q])
              /\ q \notin open => down'[q] = <<>> /\ cc[q] = <<>>
              /\ ~HasClient(q) => posts'[q] = <<>> /\ us[q] = <<>>
  <2>1. /\ Known(cc[q]) \subseteq Has(p, m.id, q)
        /\ By(q) \subseteq Has(p, m.id, q) \cup Ids(ps[q])
        /\ q \notin open => ds[q] = <<>> /\ cc[q] = <<>>
        /\ ~HasClient(q) => ps[q] = <<>> /\ us[q] = <<>>
    BY DEF Flows
  <2> QED BY <1>4, <1>5, <1>7, <2>1
<1>11. ASSUME NEW q \in Procs PROVE Ordered(said, posts'[q], Known(cache'[q]))
  <2>1. Ordered(said, ps[q], Known(cache'[q]))
    BY <1>5 DEF Flows
  <2>2. said[Fewer(m).id].after \subseteq Known(cache'[p])
    BY <1>1, <1>6
  <2>3. q = p => Ordered(said, Append(ps[q], Fewer(m)), Known(cache'[q]))
    BY <1>1, <2>1, <2>2, OrderedAppend
  <2> QED BY <1>4, <2>1, <2>3
<1>12. ASSUME NEW q \in Procs, HasClient(q)
       PROVE  /\ Known(cache'[q]) \subseteq Known(cache'[Target(q)]) \cup Ids(us[q]) \cup Ids(posts'[q])
              /\ Ordered(said, us[q], Known(cache'[Target(q)]))
              /\ Ordered(said, posts'[q], Known(cache'[Target(q)]) \cup Ids(us[q]))
  <2>1. PICK t \in Procs : t = Target(q) /\ Known(cache'[t]) = Has(p, m.id, t)
    BY <1>5, <1>8, <1>12
  <2>2. /\ Known(cache[q]) \subseteq Known(cache'[t]) \cup Ids(us[q]) \cup Ids(ps[q])
        /\ Ordered(said, us[q], Known(cache'[t]))
        /\ Ordered(said, ps[q], Known(cache'[t]) \cup Ids(us[q]))
    BY <1>12, <2>1 DEF Flows
  <2>3. Known(cache'[q]) \subseteq Known(cache'[t]) \cup Ids(us[q]) \cup Ids(posts'[q])
    <3>1. CASE new /\ q = p
      <4>1. Ids(posts'[q]) = Ids(ps[q]) \cup {m.id}
        BY <1>4, <1>7, <1>12, <3>1
      <4> QED BY <1>3, <1>4, <2>2, <3>1, <4>1
    <3>2. CASE ~(new /\ q = p)
      <4>1. cache'[q] = cache[q]
        BY <1>4, <3>2
      <4> QED BY <1>7, <2>2, <4>1
    <3> QED BY <3>1, <3>2
  <2>4. q = p => Ordered(said, Append(ps[q], Fewer(m)), Known(cache'[t]) \cup Ids(us[q]))
    <3>1. ASSUME q = p
          PROVE  \A n \in said[Fewer(m).id].after :
                   n \in (Known(cache'[t]) \cup Ids(us[q])) \/ n \in Ids(ps[q])
      BY <1>1, <2>2, <3>1
    <3> QED BY <1>1, <2>2, <3>1, OrderedAppend
  <2> QED BY <1>4, <2>1, <2>2, <2>3, <2>4
<1>13. ASSUME NEW q \in open PROVE Streams(cache'[Target(q)], cc[q], down'[q])
  <2>1. q \in Procs /\ HasClient(q)
    BY DEF NType
  <2>2. PICK t \in Procs : t = Target(q)
    BY <1>8, <2>1
  <2>3. Streams(cache[t], cc[q], ds[q])
    BY <2>1, <2>2 DEF Flows
  <2>4. Streams(Append(cache[t], m.id), cc[q], Append(ds[q], Fewer(m)))
    BY <1>1, <1>2, <2>1, <2>3, StreamsAppend
  <2> QED BY <1>4, <2>1, <2>2, <2>3, <2>4
<1>14. ASSUME NEW q \in Procs
       PROVE  /\ Fresh(recent'[q], cache', cc) /\ Fresh(posts'[q], cache', cc)
              /\ Fresh(us[q], cache', cc) /\ Fresh(down'[q], cache', cc)
  <2>0. recent[q] \in Seq(Message) /\ ps[q] \in Seq(Message) /\ ds[q] \in Seq(Message) /\ us[q] \in Seq(Message)
    BY <1>2
  <2>1. /\ Fresh(recent[q], cache', cc) /\ Fresh(ps[q], cache', cc)
        /\ Fresh(us[q], cache', cc) /\ Fresh(ds[q], cache', cc)
    <3>1. \A x \in Seq(Message) : Fresh(x, cache, cc) => Fresh(x, cache', cc)
      BY <1>1, <1>6, FreshGrows
    <3> QED BY <2>0, <3>1 DEF Costs
  <2>2. new => Paid(Fewer(m), cache', cc)
    <3>1. new => m.id \notin Known(cache[p]) /\ m.id \in Known(cache'[p])
      BY <1>4, <1>5 DEF Has
    <3>2. new => Spent(cache, cc, m.id) + 1 =< Spent(cache', cc, m.id)
      BY <1>6, <3>1, SpentGrows
    <3>3. Spent(cache, cc, m.id) \in Nat /\ Spent(cache', cc, m.id) \in Nat
      BY SpentIsNat
    <3>4. m.ttl + Spent(cache, cc, m.id) >= net.ttl
      BY Zenon DEF Paid
    <3>5. new => m.ttl - 1 + Spent(cache', cc, m.id) >= net.ttl
      BY <1>1, <3>2, <3>3, <3>4
    <3> QED BY <1>1, <3>5 DEF Paid
  <2>3. new => /\ Fresh(Append(recent[q], Fewer(m)), cache', cc)
               /\ Fresh(Append(ps[q], Fewer(m)), cache', cc)
               /\ Fresh(Append(ds[q], Fewer(m)), cache', cc)
    BY <1>1, <2>0, <2>1, <2>2, FreshAppend
  <2> QED BY <1>4, <2>1, <2>3
<1>15. Costs(ccache, posts, up, down)'
  BY <1>14 DEF Costs, Fresh, Paid
<1>16. \A q \in Procs :
         /\ Known(ccache'[q]) \subseteq Known(cache'[q])
         /\ By(q)' \subseteq Known(cache'[q]) \cup Ids(posts'[q])
         /\ Ordered(said', posts'[q], Known(cache'[q]))
         /\ q \notin open' => down'[q] = <<>> /\ ccache'[q] = <<>>
         /\ ~HasClient(q)' => posts'[q] = <<>> /\ up'[q] = <<>>
         /\ HasClient(q)' =>
              /\ Known(cache'[q]) \subseteq Known(cache'[Target(q)']) \cup Ids(up'[q]) \cup Ids(posts'[q])
              /\ Ordered(said', up'[q], Known(cache'[Target(q)']))
              /\ Ordered(said', posts'[q], Known(cache'[Target(q)']) \cup Ids(up'[q]))
         /\ q \in open' => Streams(cache'[Target(q)'], ccache'[q], down'[q])
  BY <1>8, <1>10, <1>11, <1>12, <1>13
<1> QED BY <1>9, <1>15, <1>16 DEF RInv

-----------------------------------------------------------------------------
(* The handlers of a roomy network. *)

\* With a number on its way into the group of p, nothing is missing that was not before.
LEMMA FlowsStay ==
  ASSUME NType, RInv, NEW p \in Procs, NEW x
  PROVE  Flows(p, x, ccache, posts, up, down)
<1> SUFFICES ASSUME NEW q \in Procs
             PROVE  /\ Known(ccache[q]) \subseteq Has(p, x, q)
                    /\ By(q) \subseteq Has(p, x, q) \cup Ids(posts[q])
                    /\ Ordered(said, posts[q], Has(p, x, q))
                    /\ q \notin open => down[q] = <<>> /\ ccache[q] = <<>>
                    /\ ~HasClient(q) => posts[q] = <<>> /\ up[q] = <<>>
                    /\ HasClient(q) =>
                         /\ Known(cache[q]) \subseteq Has(p, x, Target(q)) \cup Ids(up[q]) \cup Ids(posts[q])
                         /\ Ordered(said, up[q], Has(p, x, Target(q)))
                         /\ Ordered(said, posts[q], Has(p, x, Target(q)) \cup Ids(up[q]))
                    /\ q \in open => Streams(cache[Target(q)], ccache[q], down[q])
  BY DEF Flows
<1>1. \A t : Known(cache[t]) \subseteq Has(p, x, t)
  BY DEF Has
<1>2. up[q] \in Seq(Message) /\ posts[q] \in Seq(Message)
  BY Shapes
<1>3. /\ Known(ccache[q]) \subseteq Has(p, x, q)
      /\ By(q) \subseteq Has(p, x, q) \cup Ids(posts[q])
  BY <1>1 DEF RInv
<1>4. Ordered(said, posts[q], Has(p, x, q))
  <2>1. Ordered(said, posts[q], Known(cache[q])) /\ Known(cache[q]) \subseteq Has(p, x, q)
    BY <1>1 DEF RInv
  <2> QED BY <1>2, <2>1, OrderedMore
<1>5. ASSUME HasClient(q)
      PROVE  /\ Known(cache[q]) \subseteq Has(p, x, Target(q)) \cup Ids(up[q]) \cup Ids(posts[q])
             /\ Ordered(said, up[q], Has(p, x, Target(q)))
             /\ Ordered(said, posts[q], Has(p, x, Target(q)) \cup Ids(up[q]))
  <2> DEFINE S == Known(cache[Target(q)])
             T == Has(p, x, Target(q))
  <2>1. /\ Known(cache[q]) \subseteq S \cup Ids(up[q]) \cup Ids(posts[q])
        /\ Ordered(said, up[q], S)
        /\ Ordered(said, posts[q], S \cup Ids(up[q]))
    BY <1>5 DEF RInv
  <2>2. S \subseteq T
    BY <1>1
  <2> HIDE DEF S, T
  <2>3. Ordered(said, up[q], T)
    BY <1>2, <2>1, <2>2, OrderedMore
  <2>4. Ordered(said, posts[q], T \cup Ids(up[q]))
    <3>1. S \cup Ids(up[q]) \subseteq T \cup Ids(up[q])
      BY <2>2
    <3> QED BY <1>2, <2>1, <3>1, OrderedMore
  <2>5. Known(cache[q]) \subseteq T \cup Ids(up[q]) \cup Ids(posts[q])
    BY <2>1, <2>2
  <2> QED BY <2>3, <2>4, <2>5 DEF T
<1>6. /\ q \notin open => down[q] = <<>> /\ ccache[q] = <<>>
      /\ ~HasClient(q) => posts[q] = <<>> /\ up[q] = <<>>
      /\ q \in open => Streams(cache[Target(q)], ccache[q], down[q])
  BY DEF RInv
<1> QED BY <1>3, <1>4, <1>5, <1>6

\* A message leaves the posts of its process for its group and for the way up.
LEMMA RoomOnPost ==
  ASSUME NType, Roomy, RInv, NEW p \in Procs, OnPost(p)
  PROVE  RInv' /\ UNCHANGED <<said, shown>>
<1> DEFINE m  == Head(posts[p])
           ps == [posts EXCEPT ![p] = Tail(@)]
           us == [up EXCEPT ![p] = Append(@, m)]
<1>1. /\ broadcast(p, m, ps, down) /\ up' = us /\ posts[p] # <<>>
      /\ UNCHANGED <<net, open, ccache, said, shown>>
  BY DEF OnPost
<1>2. /\ posts \in [Procs -> Seq(Message)] /\ up \in [Procs -> Seq(Message)]
      /\ down \in [Procs -> Seq(Message)] /\ ccache \in [Procs -> Seq(Nat)]
  BY Shapes
<1>3. m \in Message /\ m.id \in DOMAIN said
  BY <1>1, QueueGet DEF NType
<1>4. /\ ps \in [Procs -> Seq(Message)] /\ us \in [Procs -> Seq(Message)]
      /\ \A q \in Procs : q # p => ps[q] = posts[q] /\ us[q] = up[q]
      /\ ps[p] = Tail(posts[p]) /\ us[p] = Append(up[p], m)
      /\ ps[p] \in Seq(Message) /\ us[p] \in Seq(Message)
      /\ posts[p] \in Seq(Message) /\ up[p] \in Seq(Message)
  <2>1. Tail(posts[p]) \in Seq(Message)
    BY <1>1, <1>2, TailIs
  <2>2. Append(up[p], m) \in Seq(Message)
    BY <1>2, <1>3, AppendIs
  <2> QED BY <1>2, <2>1, <2>2
<1>5. Ids(posts[p]) = {m.id} \cup Ids(ps[p]) /\ Ids(us[p]) = Ids(up[p]) \cup {m.id}
  BY <1>1, <1>3, <1>4, IdsTail, IdsAppend
<1>6. Head(posts[p]) = m
  OBVIOUS
<1> HIDE DEF m, ps, us
<1>7. HasClient(p)
  BY <1>1 DEF RInv
<1>6a. \A S, T : Ordered(said, posts[p], S) /\ S \subseteq T /\ m.id \in T =>
                Ordered(said, ps[p], T) /\ said[m.id].after \subseteq S
  <2> SUFFICES ASSUME NEW S, NEW T, Ordered(said, posts[p], S), S \subseteq T, m.id \in T
               PROVE  Ordered(said, ps[p], T) /\ said[m.id].after \subseteq S
    OBVIOUS
  <2>1. PICK q \in Seq(Message) : q = posts[p] /\ q # <<>> /\ Head(q) = m /\ Tail(q) = ps[p]
    BY <1>1, <1>4, <1>6
  <2>2. Ordered(said, q, S) /\ Head(q).id \in T
    BY <2>1
  <2>3. Ordered(said, Tail(q), T) /\ said[Head(q).id].after \subseteq S
    BY <2>1, <2>2, OrderedTail
  <2> QED BY <2>1, <2>3
<1>8. /\ Ordered(said, ps[p], Has(p, m.id, p))
      /\ said[m.id].after \subseteq Known(cache[p])
  <2>1. Ordered(said, posts[p], Known(cache[p]))
    BY DEF RInv
  <2>2. Known(cache[p]) \subseteq Has(p, m.id, p) /\ m.id \in Has(p, m.id, p)
    BY DEF Has
  <2> QED BY <1>6a, <2>1, <2>2
<1>9. PICK t : t = Target(p)
  OBVIOUS
<1> DEFINE T == Has(p, m.id, t)
<1>10. /\ Known(cache[p]) \subseteq T \cup Ids(us[p]) \cup Ids(ps[p])
       /\ Ordered(said, us[p], T)
       /\ Ordered(said, ps[p], T \cup Ids(us[p]))
  <2> DEFINE S == Known(cache[t])
  <2>1. /\ Known(cache[p]) \subseteq S \cup Ids(up[p]) \cup Ids(posts[p])
        /\ Ordered(said, up[p], S)
        /\ Ordered(said, posts[p], S \cup Ids(up[p]))
    BY <1>7, <1>9 DEF RInv
  <2>2. S \subseteq T
    BY DEF Has
  <2> HIDE DEF S, T
  <2>3. S \cup Ids(up[p]) \subseteq T \cup Ids(us[p]) /\ m.id \in T \cup Ids(us[p])
    BY <1>5, <2>2
  <2>4. Ordered(said, ps[p], T \cup Ids(us[p])) /\ said[m.id].after \subseteq S \cup Ids(up[p])
    BY <1>6a, <2>1, <2>3
  <2>5. Ordered(said, us[p], T)
    <3>1. \A n \in said[m.id].after : n \in T \/ n \in Ids(up[p])
      BY <2>2, <2>4
    <3> QED BY <1>3, <1>4, <2>1, <2>2, <3>1, OrderedAppend
  <2> QED BY <1>5, <2>1, <2>2, <2>4, <2>5
<1>11. Flows(p, m.id, ccache, ps, us, down)
  <2> SUFFICES ASSUME NEW q \in Procs
               PROVE  /\ Known(ccache[q]) \subseteq Has(p, m.id, q)
                      /\ By(q) \subseteq Has(p, m.id, q) \cup Ids(ps[q])
                      /\ Ordered(said, ps[q], Has(p, m.id, q))
                      /\ q \notin open => down[q] = <<>> /\ ccache[q] = <<>>
                      /\ ~HasClient(q) => ps[q] = <<>> /\ us[q] = <<>>
                      /\ HasClient(q) =>
                           /\ Known(cache[q]) \subseteq Has(p, m.id, Target(q)) \cup Ids(us[q]) \cup Ids(ps[q])
                           /\ Ordered(said, us[q], Has(p, m.id, Target(q)))
                           /\ Ordered(said, ps[q], Has(p, m.id, Target(q)) \cup Ids(us[q]))
                      /\ q \in open => Streams(cache[Target(q)], ccache[q], down[q])
    BY DEF Flows
  <2>1. /\ Known(ccache[q]) \subseteq Has(p, m.id, q)
        /\ By(q) \subseteq Has(p, m.id, q) \cup Ids(posts[q])
        /\ Ordered(said, posts[q], Has(p, m.id, q))
        /\ q \notin open => down[q] = <<>> /\ ccache[q] = <<>>
        /\ ~HasClient(q) => posts[q] = <<>> /\ up[q] = <<>>
        /\ HasClient(q) =>
             /\ Known(cache[q]) \subseteq Has(p, m.id, Target(q)) \cup Ids(up[q]) \cup Ids(posts[q])
             /\ Ordered(said, up[q], Has(p, m.id, Target(q)))
             /\ Ordered(said, posts[q], Has(p, m.id, Target(q)) \cup Ids(up[q]))
        /\ q \in open => Streams(cache[Target(q)], ccache[q], down[q])
    <3>1. Flows(p, m.id, ccache, posts, up, down)
      BY FlowsStay
    <3> QED BY <3>1 DEF Flows
  <2>2. CASE q # p
    <3>1. ps[q] = posts[q] /\ us[q] = up[q]
      BY <1>4, <2>2
    <3> QED BY <2>1, <3>1
  <2>3. CASE q = p
    <3>1. By(p) \subseteq Has(p, m.id, p) \cup Ids(ps[p])
      <4>1. m.id \in Has(p, m.id, p)
        BY DEF Has
      <4> QED BY <1>5, <2>1, <2>3, <4>1
    <3> QED BY <1>7, <1>8, <1>9, <1>10, <2>1, <2>3, <3>1
  <2> QED BY <2>2, <2>3
<1>12. Costs(ccache, ps, us, down) /\ Paid(m, cache, ccache)
  <2>1. \A q \in Procs : /\ Fresh(recent[q], cache, ccache) /\ Fresh(posts[q], cache, ccache)
                         /\ Fresh(up[q], cache, ccache) /\ Fresh(down[q], cache, ccache)
    BY DEF RInv, Costs
  <2>2. Fresh(ps[p], cache, ccache) /\ Paid(m, cache, ccache)
    BY <1>1, <1>4, <1>6, <2>1, FreshTail
  <2>3. Fresh(us[p], cache, ccache)
    BY <1>3, <1>4, <2>1, <2>2, FreshAppend
  <2> QED BY <1>4, <2>1, <2>2, <2>3 DEF Costs
<1>13. Caches /\ shown = ccache
  BY DEF RInv
<1>14. ccache' = ccache /\ up' = us /\ shown' = ccache /\ UNCHANGED <<net, open, said>>
  BY <1>1, <1>13
<1>15. RInv'
  BY <1>1, <1>2, <1>3, <1>4, <1>8, <1>11, <1>12, <1>13, <1>14, BroadcastKeeps
<1> QED BY <1>1, <1>15

\* A session passes on what came up in order, behind what its author had seen.
LEMMA RoomOnRead ==
  ASSUME NType, Roomy, RInv, NEW c \in Procs, OnRead(c)
  PROVE  RInv' /\ UNCHANGED <<said, shown>>
<1> DEFINE m  == Head(up[c])
           us == [up EXCEPT ![c] = Tail(@)]
<1>1. /\ broadcast(net.target[c], m, posts, down) /\ up' = us /\ up[c] # <<>> /\ c \in open
      /\ UNCHANGED <<net, open, ccache, said, shown>>
  BY DEF OnRead
<1>2. HasClient(c)
  BY <1>1 DEF NType
<1>3. PICK p \in Procs : p = Target(c) /\ broadcast(p, m, posts, down)
  BY <1>1, <1>2, NetIs DEF NType, HasClient, Target
<1>4. /\ posts \in [Procs -> Seq(Message)] /\ up \in [Procs -> Seq(Message)]
      /\ down \in [Procs -> Seq(Message)] /\ ccache \in [Procs -> Seq(Nat)]
  BY Shapes
<1>5. m \in Message /\ m.id \in DOMAIN said
  BY <1>1, QueueGet DEF NType
<1>6. /\ us \in [Procs -> Seq(Message)]
      /\ \A q \in Procs : q # c => us[q] = up[q]
      /\ us[c] = Tail(up[c]) /\ us[c] \in Seq(Message)
      /\ up[c] \in Seq(Message) /\ posts[c] \in Seq(Message)
  <2>1. Tail(up[c]) \in Seq(Message)
    BY <1>1, <1>4, TailIs
  <2> QED BY <1>4, <2>1
<1>7. Ids(up[c]) = {m.id} \cup Ids(us[c])
  BY <1>1, <1>6, IdsTail
<1>8. Head(up[c]) = m
  OBVIOUS
<1> HIDE DEF m, us
<1> DEFINE T == Has(p, m.id, p)
           S == Known(cache[p])
<1>9. S \subseteq T /\ m.id \in T
  BY DEF Has
<1>10. /\ Known(cache[c]) \subseteq S \cup Ids(up[c]) \cup Ids(posts[c])
       /\ Ordered(said, up[c], S)
       /\ Ordered(said, posts[c], S \cup Ids(up[c]))
  BY <1>2, <1>3 DEF RInv
<1> HIDE DEF S, T
<1>11. Ordered(said, us[c], T) /\ said[m.id].after \subseteq S
  <2>1. PICK q \in Seq(Message) : q = up[c] /\ q # <<>> /\ Head(q) = m /\ Tail(q) = us[c]
    BY <1>1, <1>6, <1>8
  <2>2. Ordered(said, q, S) /\ Head(q).id \in T
    BY <1>9, <1>10, <2>1
  <2>3. Ordered(said, Tail(q), T) /\ said[Head(q).id].after \subseteq S
    BY <1>9, <2>1, <2>2, OrderedTail
  <2> QED BY <2>1, <2>3
<1>12. Ordered(said, posts[c], T \cup Ids(us[c]))
  <2>1. S \cup Ids(up[c]) \subseteq T \cup Ids(us[c])
    BY <1>7, <1>9
  <2> QED BY <1>6, <1>10, <2>1, OrderedMore
<1>13. Known(cache[c]) \subseteq T \cup Ids(us[c]) \cup Ids(posts[c])
  BY <1>7, <1>9, <1>10
<1>14. Flows(p, m.id, ccache, posts, us, down)
  <2> SUFFICES ASSUME NEW q \in Procs
               PROVE  /\ Known(ccache[q]) \subseteq Has(p, m.id, q)
                      /\ By(q) \subseteq Has(p, m.id, q) \cup Ids(posts[q])
                      /\ Ordered(said, posts[q], Has(p, m.id, q))
                      /\ q \notin open => down[q] = <<>> /\ ccache[q] = <<>>
                      /\ ~HasClient(q) => posts[q] = <<>> /\ us[q] = <<>>
                      /\ HasClient(q) =>
                           /\ Known(cache[q]) \subseteq Has(p, m.id, Target(q)) \cup Ids(us[q]) \cup Ids(posts[q])
                           /\ Ordered(said, us[q], Has(p, m.id, Target(q)))
                           /\ Ordered(said, posts[q], Has(p, m.id, Target(q)) \cup Ids(us[q]))
                      /\ q \in open => Streams(cache[Target(q)], ccache[q], down[q])
    BY DEF Flows
  <2>1. /\ Known(ccache[q]) \subseteq Has(p, m.id, q)
        /\ By(q) \subseteq Has(p, m.id, q) \cup Ids(posts[q])
        /\ Ordered(said, posts[q], Has(p, m.id, q))
        /\ q \notin open => down[q] = <<>> /\ ccache[q] = <<>>
        /\ ~HasClient(q) => posts[q] = <<>> /\ up[q] = <<>>
        /\ HasClient(q) =>
             /\ Known(cache[q]) \subseteq Has(p, m.id, Target(q)) \cup Ids(up[q]) \cup Ids(posts[q])
             /\ Ordered(said, up[q], Has(p, m.id, Target(q)))
             /\ Ordered(said, posts[q], Has(p, m.id, Target(q)) \cup Ids(up[q]))
        /\ q \in open => Streams(cache[Target(q)], ccache[q], down[q])
    <3>1. Flows(p, m.id, ccache, posts, up, down)
      BY FlowsStay
    <3> QED BY <3>1 DEF Flows
  <2>2. CASE q # c
    <3>1. us[q] = up[q]
      BY <1>6, <2>2
    <3> QED BY <2>1, <3>1
  <2>3. CASE q = c
    BY <1>2, <1>3, <1>11, <1>12, <1>13, <2>1, <2>3 DEF T
  <2> QED BY <2>2, <2>3
<1>15. Costs(ccache, posts, us, down) /\ Paid(m, cache, ccache)
  <2>1. \A q \in Procs : /\ Fresh(recent[q], cache, ccache) /\ Fresh(posts[q], cache, ccache)
                         /\ Fresh(up[q], cache, ccache) /\ Fresh(down[q], cache, ccache)
    BY DEF RInv, Costs
  <2>2. Fresh(us[c], cache, ccache) /\ Paid(m, cache, ccache)
    BY <1>1, <1>6, <1>8, <2>1, FreshTail
  <2> QED BY <1>6, <2>1, <2>2 DEF Costs
<1>16. Caches /\ shown = ccache
  BY DEF RInv
<1>17. ccache' = ccache /\ up' = us /\ shown' = ccache /\ UNCHANGED <<net, open, said>>
  BY <1>1, <1>16
<1>18. said[m.id].after \subseteq Known(cache[p])
  BY <1>11 DEF S
<1>19. RInv'
  BY <1>3, <1>4, <1>5, <1>6, <1>14, <1>15, <1>16, <1>17, <1>18, BroadcastKeeps
<1> QED BY <1>1, <1>19

\* The client shows what its user has not seen, behind what the author had.
LEMMA RoomOnCRead ==
  ASSUME NType, Roomy, RInv, NEW p \in Procs, OnCRead(p)
  PROVE  /\ RInv' /\ said' = said
         /\ \E n \in DOMAIN said :
              /\ n \notin Known(shown[p]) /\ said[n].after \subseteq Known(shown[p])
              /\ shown' = [shown EXCEPT ![p] = Append(@, n)]
<1> DEFINE d  == Head(down[p])
           ds == [down EXCEPT ![p] = Tail(@)]
           cc == [ccache EXCEPT ![p] = Append(@, d.id)]
<1>1. down[p] # <<>> /\ UNCHANGED <<net, open, up, said>>
  BY DEF OnCRead
<1>2. /\ posts \in [Procs -> Seq(Message)] /\ up \in [Procs -> Seq(Message)]
      /\ down \in [Procs -> Seq(Message)] /\ ccache \in [Procs -> Seq(Nat)]
      /\ cache \in [Procs -> Seq(Nat)] /\ shown = ccache /\ Caches
  BY Shapes DEF RInv
<1>3. d \in Message /\ d.id \in DOMAIN said /\ d.id \in Nat /\ d.ttl \in Int
  <2>1. d \in Message /\ d.id \in DOMAIN said
    BY <1>1, QueueGet DEF NType
  <2> QED BY <2>1 DEF Message
<1>4. /\ ds \in [Procs -> Seq(Message)] /\ \A q \in Procs : q # p => ds[q] = down[q]
      /\ ds[p] = Tail(down[p]) /\ ds[p] \in Seq(Message) /\ down[p] \in Seq(Message)
  <2>1. Tail(down[p]) \in Seq(Message)
    BY <1>1, <1>2, TailIs
  <2> QED BY <1>2, <2>1
<1>5. /\ cc \in [Procs -> Seq(Nat)] /\ \A q \in Procs : q # p => cc[q] = ccache[q]
      /\ cc[p] = Append(ccache[p], d.id) /\ ccache[p] \in Seq(Nat)
  <2>1. Append(ccache[p], d.id) \in Seq(Nat)
    BY <1>2, <1>3, AppendIs
  <2> QED BY <1>2, <2>1
<1>6. Head(down[p]) = d
  OBVIOUS
<1>7. IF d.ttl > 0 /\ d.id \notin Known(ccache[p])
      THEN /\ ccache' = [ccache EXCEPT ![p] = Keep(@, d.id, net.cache)]
           /\ shown' = [shown EXCEPT ![p] = Append(@, d.id)]
           /\ IF d.ttl - 1 > 0 THEN broadcast(p, Fewer(d), posts, ds)
              ELSE down' = ds /\ UNCHANGED <<posts, group>>
      ELSE down' = ds /\ UNCHANGED <<ccache, shown, posts, group>>
  BY DEF OnCRead
<1>7a. cc = [ccache EXCEPT ![p] = Append(@, d.id)]
  OBVIOUS
<1> HIDE DEF d, ds, cc
<1>8. p \in open /\ HasClient(p)
  BY <1>1 DEF RInv, NType
<1>9. PICK t \in Procs : t = Target(p)
  BY <1>8, NetIs DEF NType, HasClient, Target
<1>10. /\ Streams(cache[t], cc[p], ds[p])
       /\ d.id \notin Known(ccache[p]) /\ said[d.id].after \subseteq Known(ccache[p])
       /\ Len(ccache[p]) + 1 =< Len(cache[t])
  <2>1. PICK q \in Seq(Message) : q = down[p] /\ q # <<>> /\ Head(q) = d /\ Tail(q) = ds[p]
    BY <1>1, <1>4, <1>6
  <2>2. Streams(cache[t], ccache[p], q)
    BY <1>8, <1>9, <2>1 DEF RInv
  <2>3. Distinct(cache[t]) /\ Closed(said, cache[t]) /\ cache[t] \in Seq(Nat)
    BY <1>2 DEF Caches
  <2>4. /\ Streams(cache[t], Append(ccache[p], Head(q).id), Tail(q))
        /\ Len(ccache[p]) + 1 =< Len(cache[t])
        /\ Distinct(cache[t]) => Head(q).id \notin Known(ccache[p])
        /\ \A w : Closed(w, cache[t]) => w[Head(q).id].after \subseteq Known(ccache[p])
    BY <1>5, <2>1, <2>2, <2>3, StreamsTail
  <2> QED BY <1>5, <2>1, <2>3, <2>4
<1>11. said[d.id].after \subseteq Known(cache[p])
  BY <1>10 DEF RInv
<1>12. Known(cc[p]) = Known(ccache[p]) \cup {d.id}
  BY <1>3, <1>5, KnownAppend
\* What it costs to come here.
<1>13. \A q \in Procs : /\ Fresh(recent[q], cache, ccache) /\ Fresh(posts[q], cache, ccache)
                        /\ Fresh(up[q], cache, ccache) /\ Fresh(down[q], cache, ccache)
  BY DEF RInv, Costs
<1>14. Fresh(ds[p], cache, ccache) /\ Paid(d, cache, ccache)
  BY <1>1, <1>4, <1>6, <1>13, FreshTail
<1>15. d.ttl - 1 > 0 /\ d.ttl > 0
  BY <1>3, <1>14, RoomyTtl
<1>16. \A q \in Procs : Known(cache[q]) \subseteq Known(cache[q]) /\ Known(ccache[q]) \subseteq Known(cc[q])
  BY <1>5, <1>12
<1>17. Fewer(d) \in Message /\ Fewer(d).id = d.id /\ Fewer(d).ttl = d.ttl - 1
  BY <1>3, FewerIs
<1>18. Paid(Fewer(d), cache, cc)
  <2>1. Spent(cache, ccache, d.id) + 1 =< Spent(cache, cc, d.id)
    BY <1>10, <1>12, <1>16, SpentGrows
  <2>2. Spent(cache, ccache, d.id) \in Nat /\ Spent(cache, cc, d.id) \in Nat
    BY SpentIsNat
  <2>3. net.ttl \in Nat
    BY NetIs DEF NType
  <2> QED BY <1>3, <1>14, <1>17, <2>1, <2>2, <2>3 DEF Paid
<1>19. Costs(cc, posts, up, ds)
  <2>1. net.ttl \in Nat
    BY NetIs DEF NType
  <2>2. \A x \in Seq(Message) : Fresh(x, cache, ccache) => Fresh(x, cache, cc)
    BY <1>16, <2>1, FreshGrows
  <2>3. recent \in [Procs -> Seq(Message)]
    BY Shapes
  <2>4. \A q \in Procs : Fresh(ds[q], cache, ccache)
    BY <1>4, <1>13, <1>14
  <2> QED BY <1>2, <1>4, <1>13, <2>2, <2>3, <2>4 DEF Costs
<1>20. Flows(p, d.id, cc, posts, up, ds)
  <2> SUFFICES ASSUME NEW q \in Procs
               PROVE  /\ Known(cc[q]) \subseteq Has(p, d.id, q)
                      /\ By(q) \subseteq Has(p, d.id, q) \cup Ids(posts[q])
                      /\ Ordered(said, posts[q], Has(p, d.id, q))
                      /\ q \notin open => ds[q] = <<>> /\ cc[q] = <<>>
                      /\ ~HasClient(q) => posts[q] = <<>> /\ up[q] = <<>>
                      /\ HasClient(q) =>
                           /\ Known(cache[q]) \subseteq Has(p, d.id, Target(q)) \cup Ids(up[q]) \cup Ids(posts[q])
                           /\ Ordered(said, up[q], Has(p, d.id, Target(q)))
                           /\ Ordered(said, posts[q], Has(p, d.id, Target(q)) \cup Ids(up[q]))
                      /\ q \in open => Streams(cache[Target(q)], cc[q], ds[q])
    BY DEF Flows
  <2>1. /\ Known(ccache[q]) \subseteq Has(p, d.id, q)
        /\ By(q) \subseteq Has(p, d.id, q) \cup Ids(posts[q])
        /\ Ordered(said, posts[q], Has(p, d.id, q))
        /\ q \notin open => down[q] = <<>> /\ ccache[q] = <<>>
        /\ ~HasClient(q) => posts[q] = <<>> /\ up[q] = <<>>
        /\ HasClient(q) =>
             /\ Known(cache[q]) \subseteq Has(p, d.id, Target(q)) \cup Ids(up[q]) \cup Ids(posts[q])
             /\ Ordered(said, up[q], Has(p, d.id, Target(q)))
             /\ Ordered(said, posts[q], Has(p, d.id, Target(q)) \cup Ids(up[q]))
        /\ q \in open => Streams(cache[Target(q)], ccache[q], down[q])
    <3>1. Flows(p, d.id, ccache, posts, up, down)
      BY FlowsStay
    <3> QED BY <3>1 DEF Flows
  <2>2. CASE q # p
    <3>1. ds[q] = down[q] /\ cc[q] = ccache[q]
      BY <1>4, <1>5, <2>2
    <3> QED BY <2>1, <3>1
  <2>3. CASE q = p
    <3>1. Known(cc[p]) \subseteq Has(p, d.id, p)
      <4>1. d.id \in Has(p, d.id, p)
        BY DEF Has
      <4> QED BY <1>12, <2>1, <2>3, <4>1
    <3> QED BY <1>8, <1>9, <1>10, <2>1, <2>3, <3>1
  <2> QED BY <2>2, <2>3
\* The client has room for one more.
<1>21. Keep(ccache[p], d.id, net.cache) = Append(ccache[p], d.id)
  <2>1. Len(cache[t]) =< Len(said)
    <3>1. Distinct(cache[t]) /\ cache[t] \in Seq(Nat)
      BY <1>2 DEF Caches
    <3>2. Known(cache[t]) \subseteq 1..Len(said) /\ Len(said) \in Nat
      BY Shapes DEF NType, Lists
    <3> QED BY <3>1, <3>2, DistinctLen
  <2>2. /\ Len(said) \in Nat /\ Len(said) =< MaxSaid /\ MaxSaid =< net.cache /\ net.cache \in Nat
        /\ Len(cache[t]) \in Nat /\ Len(ccache[p]) \in Nat
    <3>1. Len(said) \in Nat /\ Len(said) =< MaxSaid
      BY Shapes DEF NType
    <3>2. net.cache \in Nat /\ MaxSaid =< net.cache
      BY NetIs, SaidAssumption DEF NType, Roomy
    <3>3. Len(cache[t]) \in Nat /\ Len(ccache[p]) \in Nat
      BY <1>2, <1>5
    <3> QED BY <3>1, <3>2, <3>3
  <2>3. Len(ccache[p]) + 1 =< net.cache
    BY <1>10, <2>1, <2>2, SaidAssumption
  <2>4. \A list \in Seq(Nat), y \in Nat, max \in Nat :
          Len(list) + 1 =< max => Keep(list, y, max) = Append(list, y)
    BY KeepIs
  <2> QED BY <1>3, <1>5, <2>2, <2>3, <2>4
<1>22. /\ ccache' = cc /\ shown' = [shown EXCEPT ![p] = Append(@, d.id)] /\ shown' = cc
       /\ broadcast(p, Fewer(d), posts, ds)
  BY <1>2, <1>7, <1>7a, <1>10, <1>15, <1>21
<1>23. Fewer(d).id \in DOMAIN said /\ said[Fewer(d).id].after \subseteq Known(cache[p])
       /\ Flows(p, Fewer(d).id, cc, posts, up, ds)
  BY <1>3, <1>11, <1>17, <1>20
<1>24. RInv'
  BY <1>1, <1>2, <1>4, <1>5, <1>17, <1>18, <1>19, <1>22, <1>23, BroadcastKeeps
<1> QED BY <1>1, <1>2, <1>3, <1>10, <1>22, <1>24

\* A line that is typed comes after what its author has seen: all of that is in its group,
\* or in its posts ahead of it.
LEMMA RoomType ==
  ASSUME NType, RInv, NEW p \in Procs, Type(p)
  PROVE  RInv'
<1>1. /\ HasClient(p)
      /\ posts' = [posts EXCEPT ![p] = Append(@, [id |-> Len(said) + 1, ttl |-> net.ttl])]
      /\ UNCHANGED <<net, open, cache, recent, ccache, up, down, shown>>
  BY DEF Type, group
<1>2. PICK x \in Line : said' = Append(said, x) /\ x.by = p /\ x.after = Known(shown[p]) \cup By(p)
  BY TypeType DEF By
<1> DEFINE N == Len(said) + 1
           m == [id |-> N, ttl |-> net.ttl]
<1>3. /\ N \in Nat /\ N \notin DOMAIN said /\ said'[N] = x
      /\ DOMAIN said' = DOMAIN said \cup {N} /\ \A n \in DOMAIN said : said'[n] = said[n]
  <2>1. /\ N \in Nat /\ N \notin DOMAIN said /\ said'[N] = x
        /\ \A n \in DOMAIN said : said'[n] = said[n]
    BY <1>2, SaidMore
  <2>2. DOMAIN said' = DOMAIN said \cup {N}
    <3>1. said \in Seq(Line) /\ Len(said) \in Nat /\ DOMAIN said = 1..Len(said)
      BY Shapes DEF NType
    <3>2. DOMAIN Append(said, x) = 1..(Len(said) + 1)
      BY <3>1, AppendIs
    <3> QED BY <1>2, <3>1, <3>2
  <2> QED BY <2>1, <2>2
<1>4. m \in Message /\ m.id = N /\ m.ttl = net.ttl /\ net.ttl \in Nat
  <2>1. net.ttl \in Nat
    BY NetIs DEF NType
  <2> QED BY <1>3, <2>1 DEF Message
<1>5. posts' = [posts EXCEPT ![p] = Append(@, m)]
  BY <1>1
<1> HIDE DEF m, N
<1>6. /\ \A q \in Procs : Known(cache[q]) \subseteq DOMAIN said /\ Ids(posts[q]) \subseteq DOMAIN said
                          /\ Ids(up[q]) \subseteq DOMAIN said
      /\ \A q \in Procs : posts[q] \in Seq(Message) /\ up[q] \in Seq(Message) /\ cache[q] \in Seq(Nat)
                          /\ down[q] \in Seq(Message) /\ recent[q] \in Seq(Message)
  BY Shapes DEF NType, Lists, Queues
<1>7. \A q \in Procs : posts'[q] = IF q = p THEN Append(posts[q], m) ELSE posts[q]
  BY <1>5, Shapes
<1>8. \A q \in Procs : Ids(Append(posts[q], m)) = Ids(posts[q]) \cup {N}
  BY <1>4, <1>6, IdsAppend
<1>9. \A q \in Procs : By(q)' = By(q) \cup (IF q = p THEN {N} ELSE {})
  BY <1>2, <1>3 DEF By
<1>10. \A q \in Procs : /\ HasClient(q)' <=> HasClient(q)
                        /\ Target(q)' = Target(q)
                        /\ HasClient(q) => Target(q) \in Procs
  BY <1>1, NetIs DEF HasClient, Target, NType
<1>11. Caches'
  <2>1. \A q \in Procs : Closed(said', cache[q])
    <3> SUFFICES ASSUME NEW q \in Procs PROVE Closed(said', cache[q])
      OBVIOUS
    <3>1. Closed(said, cache[q]) /\ \A n \in Known(cache[q]) : said'[n] = said[n]
      BY <1>3, <1>6 DEF RInv, Caches
    <3> QED BY <1>6, <3>1, ClosedMore
  <2> QED BY <1>1, <2>1 DEF RInv, Caches
<1>12. x.after \subseteq Known(cache[p]) \cup Ids(posts[p])
  BY <1>2 DEF RInv
<1>13. ASSUME NEW q \in Procs, NEW S, NEW T, S \subseteq T
       PROVE  /\ Ordered(said, posts[q], S) => Ordered(said', posts[q], T)
              /\ Ordered(said, up[q], S) => Ordered(said', up[q], T)
  <2>1. (\A n \in Ids(posts[q]) : said'[n] = said[n]) /\ (\A n \in Ids(up[q]) : said'[n] = said[n])
    BY <1>3, <1>6
  <2>2. posts[q] \in Seq(Message) /\ up[q] \in Seq(Message)
    BY <1>6
  <2>3. Ordered(said, posts[q], S) => Ordered(said', posts[q], T)
    BY <1>13, <2>1, <2>2, OrderedMore
  <2>4. Ordered(said, up[q], S) => Ordered(said', up[q], T)
    BY <1>13, <2>1, <2>2, OrderedMore
  <2> QED BY <2>3, <2>4
<1>14. ASSUME NEW q \in Procs, NEW S, Ordered(said, posts[q], S), x.after \subseteq S \cup Ids(posts[q]) \/ q # p
       PROVE  Ordered(said', posts'[q], S)
  <2>1. Ordered(said', posts[q], S)
    BY <1>13, <1>14
  <2>2. CASE q = p
    <3>1. \A n \in said'[m.id].after : n \in S \/ n \in Ids(posts[q])
      BY <1>3, <1>4, <1>14, <2>2
    <3>2. Ordered(said', Append(posts[q], m), S)
      BY <1>4, <1>6, <2>1, <3>1, OrderedAppend
    <3> QED BY <1>7, <2>2, <3>2
  <2>3. CASE q # p
    BY <1>7, <2>1, <2>3
  <2> QED BY <2>2, <2>3
<1>15. ASSUME NEW q \in Procs
       PROVE  /\ By(q)' \subseteq Known(cache[q]) \cup Ids(posts'[q])
              /\ Ordered(said', posts'[q], Known(cache[q]))
              /\ ~HasClient(q) => posts'[q] = <<>>
              /\ Ids(posts[q]) \subseteq Ids(posts'[q])
  <2>1. /\ By(q) \subseteq Known(cache[q]) \cup Ids(posts[q])
        /\ Ordered(said, posts[q], Known(cache[q]))
        /\ ~HasClient(q) => posts[q] = <<>>
    BY DEF RInv
  <2>2. Ids(posts'[q]) = Ids(posts[q]) \cup (IF q = p THEN {N} ELSE {})
    BY <1>7, <1>8
  <2>3. Ordered(said', posts'[q], Known(cache[q]))
    BY <1>12, <1>14, <2>1
  <2>4. By(q)' \subseteq Known(cache[q]) \cup Ids(posts'[q])
    BY <1>9, <2>1, <2>2
  <2> QED BY <1>1, <1>7, <2>1, <2>2, <2>3, <2>4
<1>16. ASSUME NEW q \in Procs, HasClient(q)
       PROVE  /\ Known(cache[q]) \subseteq Known(cache[Target(q)]) \cup Ids(up[q]) \cup Ids(posts'[q])
              /\ Ordered(said', up[q], Known(cache[Target(q)]))
              /\ Ordered(said', posts'[q], Known(cache[Target(q)]) \cup Ids(up[q]))
  <2>1. PICK S : S = Known(cache[Target(q)])
    OBVIOUS
  <2>2. /\ Known(cache[q]) \subseteq S \cup Ids(up[q]) \cup Ids(posts[q])
        /\ Ordered(said, up[q], S)
        /\ Ordered(said, posts[q], S \cup Ids(up[q]))
    BY <1>16, <2>1 DEF RInv
  <2>3. Ordered(said', up[q], S)
    BY <1>13, <2>2
  <2>4. q = p => x.after \subseteq (S \cup Ids(up[q])) \cup Ids(posts[q])
    BY <1>12, <2>2
  <2>5. Ordered(said', posts'[q], S \cup Ids(up[q]))
    BY <1>14, <2>2, <2>4
  <2> QED BY <1>15, <2>1, <2>2, <2>3, <2>5
<1>17. Costs(ccache, posts, up, down)'
  <2>1. \A q \in Procs : /\ Fresh(recent[q], cache, ccache) /\ Fresh(posts[q], cache, ccache)
                         /\ Fresh(up[q], cache, ccache) /\ Fresh(down[q], cache, ccache)
    BY DEF RInv, Costs
  <2>2. Paid(m, cache, ccache)
    <3>1. Spent(cache, ccache, m.id) \in Nat
      BY SpentIsNat
    <3> QED BY <1>4, <3>1 DEF Paid
  <2>3. \A q \in Procs : Fresh(Append(posts[q], m), cache, ccache)
    BY <1>4, <1>6, <2>1, <2>2, FreshAppend
  <2>4. \A q \in Procs : Fresh(posts'[q], cache, ccache)
    BY <1>7, <2>1, <2>3
  <2> QED BY <1>1, <2>1, <2>4 DEF Costs, Fresh, Paid
<1>18. \A q \in Procs :
         /\ Known(ccache'[q]) \subseteq Known(cache'[q])
         /\ By(q)' \subseteq Known(cache'[q]) \cup Ids(posts'[q])
         /\ Ordered(said', posts'[q], Known(cache'[q]))
         /\ q \notin open' => down'[q] = <<>> /\ ccache'[q] = <<>>
         /\ ~HasClient(q)' => posts'[q] = <<>> /\ up'[q] = <<>>
         /\ HasClient(q)' =>
              /\ Known(cache'[q]) \subseteq Known(cache'[Target(q)']) \cup Ids(up'[q]) \cup Ids(posts'[q])
              /\ Ordered(said', up'[q], Known(cache'[Target(q)']))
              /\ Ordered(said', posts'[q], Known(cache'[Target(q)']) \cup Ids(up'[q]))
         /\ q \in open' => Streams(cache'[Target(q)'], ccache'[q], down'[q])
  <2> SUFFICES ASSUME NEW q \in Procs
               PROVE  /\ Known(ccache[q]) \subseteq Known(cache[q])
                      /\ q \notin open => down[q] = <<>> /\ ccache[q] = <<>>
                      /\ ~HasClient(q) => up[q] = <<>>
                      /\ q \in open => Streams(cache[Target(q)], ccache[q], down[q])
    BY <1>1, <1>10, <1>15, <1>16
  <2> QED BY DEF RInv
<1> QED BY <1>1, <1>11, <1>17, <1>18 DEF RInv

\* join tells the new session all that its group has.
LEMMA RoomConnect ==
  ASSUME NType, RInv, NEW p \in Procs, Connect(p)
  PROVE  RInv'
<1>1. /\ HasClient(p) /\ p \notin open /\ open' = open \cup {p}
      /\ down' = [down EXCEPT ![p] = recent[net.target[p]]]
      /\ UNCHANGED <<net, cache, recent, ccache, posts, up, said, shown>>
  BY DEF Connect, group
<1>2. PICK t \in Procs : t = Target(p) /\ t = net.target[p]
  BY <1>1, NetIs DEF NType, HasClient, Target
<1>3. \A q \in Procs : down'[q] = IF q = p THEN recent[t] ELSE down[q]
  BY <1>1, <1>2, Shapes
<1>4. \A q \in Procs : /\ HasClient(q)' <=> HasClient(q)
                       /\ Target(q)' = Target(q) /\ By(q)' = By(q)
  BY <1>1 DEF HasClient, Target, By
<1>5. Streams(cache[t], <<>>, recent[t])
  <2>1. Len(recent[t]) = Len(cache[t]) /\ \A k \in 1..Len(cache[t]) : recent[t][k].id = cache[t][k]
    BY DEF RInv, Caches
  <2>2. cache[t] \in Seq(Nat) /\ recent[t] \in Seq(Message)
    BY Shapes
  <2> QED BY <2>1, <2>2 DEF Streams
<1>6. ccache[p] = <<>>
  BY <1>1 DEF RInv
<1>7. Costs(ccache, posts, up, down)'
  <2>1. \A q \in Procs : /\ Fresh(recent[q], cache, ccache) /\ Fresh(posts[q], cache, ccache)
                         /\ Fresh(up[q], cache, ccache) /\ Fresh(down[q], cache, ccache)
    BY DEF RInv, Costs
  <2>2. \A q \in Procs : Fresh(down'[q], cache, ccache)
    BY <1>3, <2>1
  <2> QED BY <1>1, <2>1, <2>2 DEF Costs, Fresh, Paid
<1>8. Caches'
  BY <1>1 DEF RInv, Caches
<1>9. \A q \in Procs :
         /\ Known(ccache'[q]) \subseteq Known(cache'[q])
         /\ By(q)' \subseteq Known(cache'[q]) \cup Ids(posts'[q])
         /\ Ordered(said', posts'[q], Known(cache'[q]))
         /\ q \notin open' => down'[q] = <<>> /\ ccache'[q] = <<>>
         /\ ~HasClient(q)' => posts'[q] = <<>> /\ up'[q] = <<>>
         /\ HasClient(q)' =>
              /\ Known(cache'[q]) \subseteq Known(cache'[Target(q)']) \cup Ids(up'[q]) \cup Ids(posts'[q])
              /\ Ordered(said', up'[q], Known(cache'[Target(q)']))
              /\ Ordered(said', posts'[q], Known(cache'[Target(q)']) \cup Ids(up'[q]))
         /\ q \in open' => Streams(cache'[Target(q)'], ccache'[q], down'[q])
  <2> SUFFICES ASSUME NEW q \in Procs
               PROVE  /\ Known(ccache[q]) \subseteq Known(cache[q])
                      /\ By(q) \subseteq Known(cache[q]) \cup Ids(posts[q])
                      /\ Ordered(said, posts[q], Known(cache[q]))
                      /\ q \notin open' => down'[q] = <<>> /\ ccache[q] = <<>>
                      /\ ~HasClient(q) => posts[q] = <<>> /\ up[q] = <<>>
                      /\ HasClient(q) =>
                           /\ Known(cache[q]) \subseteq Known(cache[Target(q)]) \cup Ids(up[q]) \cup Ids(posts[q])
                           /\ Ordered(said, up[q], Known(cache[Target(q)]))
                           /\ Ordered(said, posts[q], Known(cache[Target(q)]) \cup Ids(up[q]))
                      /\ q \in open' => Streams(cache[Target(q)], ccache[q], down'[q])
    BY <1>1, <1>4
  <2>1. /\ q \notin open' => down'[q] = <<>> /\ ccache[q] = <<>>
        /\ q \in open' => Streams(cache[Target(q)], ccache[q], down'[q])
    <3>1. CASE q = p
      BY <1>1, <1>2, <1>3, <1>5, <1>6, <3>1
    <3>2. CASE q # p
      <4>1. /\ q \notin open => down[q] = <<>> /\ ccache[q] = <<>>
            /\ q \in open => Streams(cache[Target(q)], ccache[q], down[q])
        BY DEF RInv
      <4> QED BY <1>1, <1>3, <3>2, <4>1
    <3> QED BY <3>1, <3>2
  <2> QED BY <2>1 DEF RInv
<1>10. shown' = ccache'
  BY <1>1 DEF RInv
<1> QED BY <1>7, <1>8, <1>9, <1>10 DEF RInv

-----------------------------------------------------------------------------
(* The invariant of any network, and the room it is for its users. *)

\* What holds of every network, and what of one that is roomy besides.
NInv == NType /\ (Roomy => RInv)

\* The invariant holds of a network in which nothing was said.
LEMMA RoomInit == Init => NInv
<1> SUFFICES ASSUME Init PROVE RInv
  BY TypeInit DEF NInv
<1>1. /\ open = {p \in Procs : p \notin net.late /\ HasClient(p)}
      /\ cache = [p \in Procs |-> <<>>] /\ recent = [p \in Procs |-> <<>>]
      /\ ccache = [p \in Procs |-> <<>>] /\ posts = [p \in Procs |-> <<>>]
      /\ up = [p \in Procs |-> <<>>] /\ down = [p \in Procs |-> <<>>]
      /\ said = <<>> /\ shown = [p \in Procs |-> <<>>]
  BY DEF Init
<1>2. Ids(<<>>) = {} /\ Known(<<>>) = {} /\ Len(<<>>) = 0 /\ 1..0 = {} /\ DOMAIN <<>> = {}
  BY DEF Ids, Known
<1>3. Caches
  <2>1. Distinct(<<>>) /\ Closed(said, <<>>)
    BY DEF Distinct, Closed
  <2> QED BY <1>1, <1>2, <2>1 DEF Caches
<1>4. Costs(ccache, posts, up, down)
  BY <1>1, <1>2 DEF Costs, Fresh
<1>5. \A S : Ordered(said, <<>>, S)
  BY <1>2 DEF Ordered
<1>6. Streams(<<>>, <<>>, <<>>)
  BY <1>2 DEF Streams
<1>7. \A q \in Procs : By(q) = {}
  BY <1>1, <1>2 DEF By
<1>8. \A q \in Procs :
       /\ Known(ccache[q]) \subseteq Known(cache[q])
       /\ By(q) \subseteq Known(cache[q]) \cup Ids(posts[q])
       /\ Ordered(said, posts[q], Known(cache[q]))
       /\ q \notin open => down[q] = <<>> /\ ccache[q] = <<>>
       /\ ~HasClient(q) => posts[q] = <<>> /\ up[q] = <<>>
       /\ HasClient(q) =>
            /\ Known(cache[q]) \subseteq Known(cache[Target(q)]) \cup Ids(up[q]) \cup Ids(posts[q])
            /\ Ordered(said, up[q], Known(cache[Target(q)]))
            /\ Ordered(said, posts[q], Known(cache[Target(q)]) \cup Ids(up[q]))
       /\ q \in open => Streams(cache[Target(q)], ccache[q], down[q])
  <2> SUFFICES ASSUME NEW q \in Procs
               PROVE  q \in open => Streams(cache[Target(q)], ccache[q], down[q])
    BY <1>1, <1>2, <1>5, <1>7
  <2>1. HasClient(q) => Target(q) \in Procs
    BY NetIs DEF Init, HasClient, Target
  <2> QED BY <1>1, <1>6, <2>1
<1> QED BY <1>1, <1>3, <1>4, <1>8 DEF RInv

\* What a step of the network is for its users.
Heard(p) ==
  /\ said' = said
  /\ \E n \in DOMAIN said :
       /\ Roomy => n \notin Known(shown[p]) /\ said[n].after \subseteq Known(shown[p])
       /\ shown' = [shown EXCEPT ![p] = Append(@, n)]

\* Every step keeps it, and is a line, a message displayed, or nothing to a user.
LEMMA RoomStep ==
  ASSUME NInv, [Next]_vars
  PROVE  /\ NInv'
         /\ net' = net
         /\ \/ UNCHANGED <<said, shown>>
            \/ \E p \in Procs : Type(p) \/ Heard(p)
<1>1. NType'
  BY TypeNext DEF NInv
<1>2. CASE UNCHANGED vars
  <2>1. UNCHANGED <<net, open, cache, recent, ccache, posts, up, down, said, shown>>
    BY <1>2 DEF vars, group, queues
  <2>2. RInv => RInv'
    BY <2>1 DEF RInv, Caches, Costs, Fresh, Paid, Target, By, HasClient
  <2>3. Roomy' <=> Roomy
    BY <2>1 DEF Roomy
  <2> QED BY <1>1, <2>1, <2>2, <2>3 DEF NInv
<1>3. ASSUME NEW p \in Procs, Type(p)
      PROVE  NInv' /\ net' = net
  <2>1. net' = net
    BY <1>3 DEF Type
  <2>2. Roomy' <=> Roomy
    BY <2>1 DEF Roomy
  <2> QED BY <1>1, <1>3, <2>1, <2>2, RoomType DEF NInv
<1>4. ASSUME NEW p \in Procs, Connect(p)
      PROVE  NInv' /\ net' = net /\ UNCHANGED <<said, shown>>
  <2>1. net' = net /\ UNCHANGED <<said, shown>>
    BY <1>4 DEF Connect
  <2>2. Roomy' <=> Roomy
    BY <2>1 DEF Roomy
  <2> QED BY <1>1, <1>4, <2>1, <2>2, RoomConnect DEF NInv
<1>5. ASSUME NEW p \in Procs, OnPost(p)
      PROVE  NInv' /\ net' = net /\ UNCHANGED <<said, shown>>
  <2>1. net' = net /\ UNCHANGED <<said, shown>>
    BY <1>5 DEF OnPost
  <2>2. Roomy' <=> Roomy
    BY <2>1 DEF Roomy
  <2> QED BY <1>1, <1>5, <2>1, <2>2, RoomOnPost DEF NInv
<1>6. ASSUME NEW c \in Procs, OnRead(c)
      PROVE  NInv' /\ net' = net /\ UNCHANGED <<said, shown>>
  <2>1. net' = net /\ UNCHANGED <<said, shown>>
    BY <1>6 DEF OnRead
  <2>2. Roomy' <=> Roomy
    BY <2>1 DEF Roomy
  <2> QED BY <1>1, <1>6, <2>1, <2>2, RoomOnRead DEF NInv
<1>7. ASSUME NEW p \in Procs, OnCRead(p)
      PROVE  NInv' /\ net' = net /\ (UNCHANGED <<said, shown>> \/ Heard(p))
  <2>1. net' = net /\ said' = said
    BY <1>7 DEF OnCRead
  <2>2. Roomy' <=> Roomy
    BY <2>1 DEF Roomy
  <2>3. CASE Roomy
    BY <1>1, <1>7, <2>1, <2>2, <2>3, RoomOnCRead DEF NInv, Heard
  <2>4. CASE ~Roomy
    <3>1. Head(down[p]).id \in DOMAIN said
      BY <1>7, QueueGet DEF NInv, NType, OnCRead
    <3>2. shown' = shown \/ shown' = [shown EXCEPT ![p] = Append(@, Head(down[p]).id)]
      BY <1>7 DEF OnCRead
    <3> QED BY <1>1, <2>1, <2>2, <2>4, <3>1, <3>2 DEF NInv, Heard
  <2> QED BY <2>3, <2>4
<1> QED BY <1>2, <1>3, <1>4, <1>5, <1>6, <1>7 DEF Next, Handler

\* A network of chat processes is one room: whatever the graph of connections, and
\* whoever joins when, a process displays only what was said, and where the caches
\* forget nothing and the ttl is long enough, it displays a message once, after all
\* that its author had been shown or had typed (Group::broadcast with the caches of
\* group and client, the replay of Group::join).
THEOREM NetworkIsRoom == Spec => RoomSpec
<1>1. Init => NInv /\ Room!Init
  <2>1. Roomy \in BOOLEAN
    BY DEF Roomy
  <2> QED BY <2>1, RoomInit DEF Init, Room!Init
<1>2. NInv /\ [Next]_vars => NInv' /\ [Room!Next]_<<said, shown, Roomy>>
  <2> SUFFICES ASSUME NInv, [Next]_vars
               PROVE  NInv' /\ [Room!Next]_<<said, shown, Roomy>>
    OBVIOUS
  <2>1. NInv' /\ Roomy' = Roomy
    BY RoomStep DEF Roomy
  <2>2. ASSUME NEW p \in Procs, Type(p) PROVE Room!Say(p)
    BY <2>1, <2>2 DEF Type, Room!Say, Room!Known, Room!By, Known
  <2>3. ASSUME NEW p \in Procs, Heard(p) PROVE \E n \in DOMAIN said : Room!Read(p, n)
    BY <2>1, <2>3 DEF Heard, Room!Read, Room!Known, Known
  <2> QED BY <2>1, <2>2, <2>3, RoomStep DEF Room!Next
<1> QED BY <1>1, <1>2, PTL DEF Spec, RoomSpec, Room!Spec
=============================================================================
