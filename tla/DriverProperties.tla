--------------------------- MODULE DriverProperties ---------------------------
(* What the malloc driver promises about its verdict.                          *)
EXTENDS Driver

\* What the scripts that make the traces keep to (checktrace.pl): no request for a block that
\* has been freed, and no allocation under an id that has one.
Consistent(f) ==
    \A n \in 1..f.num_ops :
      LET o == f.ops[n] IN
      /\ o.index \in Ids(f) \/ (o.type = "f" /\ o.index = -1)
      /\ IF o.type = "a" THEN Holds(f, n - 1, o.index) = 0 ELSE ~Freed(f, n - 1, o.index)
ASSUME TracesAssumption == \A s \in Suites : \A t \in DOMAIN s : Readable(s[t]) => Consistent(s[t])

TypeOK ==
    /\ pc \in {"read", "valid", "check", "util", "speed", "free", "report", "hang", "exit", "undefined"}
    /\ i \in DOMAIN files /\ k \in 1 .. Len(trace.ops) + 1 /\ errors \in Nat
    /\ mem \in [Heap -> Nat \X Nat]

\* The range list is the record of what the trace owns: one entry for each block that has
\* been given out and not freed, through moves, refusals and earlier traces; and the only
\* overlap in it is one where the new payload covers the old on both sides, which add_range
\* lets pass although its comment (mdriver.c:562) says that no payloads may overlap.
RangesAreLive ==
    /\ TypeOK
    /\ pc = "check" /\ ~NoRanges =>
         /\ {ranges[n].index : n \in DOMAIN ranges} = Live /\ Len(ranges) = Cardinality(Live)
         /\ \A n \in DOMAIN ranges : ranges[n].lo .. ranges[n].hi = Payload(ranges[n].index)
         /\ \A n, q \in DOMAIN ranges : n < q =>
              \/ ranges[n].hi < ranges[q].lo \/ ranges[q].hi < ranges[n].lo
              \/ ranges[n].lo < ranges[q].lo /\ ranges[q].hi < ranges[n].hi

\* No false alarm, and nothing missed: errors are counted only for a package that misbehaved
\* or was too slow; and with debugging on and traces that free all they allocate, each
\* misplaced block or spoilt byte has been counted when the trace has been judged ("the
\* overlap will be caught by writing random bits"). The second half is of random data that
\* tells every two fills apart (Datum); bytes that agree by chance hide an overlap.
Balanced(f) == Readable(f) => \A x \in Ids(f) : Holds(f, f.num_ops, x) = 0
VerdictIsRight ==
    /\ errors > 0 => faulty
    /\ opt.debug # 0 /\ pc \notin {"check", "hang", "exit"} /\ (\A t \in DOMAIN files : Balanced(files[t]))
         => (faulty => errors > 0)

\* A performance index is printed only when every trace was judged correct, and the space
\* that it was measured by is the most that the trace holds at a time. A timeout in any phase
\* leaves no index.
Bytes(f, n)  == UNION {{x} \X (1..Holds(f, n, x)) : x \in Ids(f)}
HighWater(f) == Max({Cardinality(Bytes(f, n)) : n \in 0..f.num_ops})
CleanScore ==
    score = "index" =>
      \A t \in DOMAIN files : opt.onetime \/
         /\ stats[t].valid
         /\ stats[t].util = HighWater(files[t])

\* v holds the n smallest of s, or all of them, in order.
Smallest(v, s, n) ==
    /\ Len(v) = IF Len(s) < n THEN Len(s) ELSE n
    /\ \A p, q \in DOMAIN v : p < q => v[p] =< v[q]
    /\ \E of \in [DOMAIN v -> DOMAIN s] :
         /\ \A p, q \in DOMAIN v : of[p] = of[q] => p = q
         /\ \A p \in DOMAIN v : v[p] = s[of[p]]
         /\ \A x \in DOMAIN s : (\A p \in DOMAIN v : of[p] # x) => \A p \in DOMAIN v : v[p] =< s[x]

\* fcyc's values are the kbest smallest of the times that the runs took, in order, whatever
\* the counter was at the start: its low word wraps and its high word may.
KBest == Smallest(values, samples, kbest)

\* "Timeout after s secs": with the option set a package that never returns does not keep
\* the driver from its end.
TimeoutEnds == opt.timeout ~> pc \in {"exit", "undefined"}
=============================================================================
