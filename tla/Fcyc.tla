--------------------------------- MODULE Fcyc ---------------------------------
(* The timing package of the malloc driver (fsecs.c, fcyc.c, clock.c on x86):  *)
(* the K-best scheme over a cycle counter that is read as two words, with the  *)
(* time of timer interrupts taken off again.                                   *)
EXTENDS Integers, SequencesExt

CONSTANTS
    kbest, maxsamples,  \* set_fcyc_k, set_fcyc_maxsamples
    Word,               \* values of an unsigned
    Costs,              \* cycles a measured run may take
    Ticks,              \* timer interrupts that may fall into it
    Ratios              \* cycles per interrupt that callibrate may find, 0 for none

ASSUME SamplerAssumption ==
    /\ kbest \in Nat \ {0} /\ maxsamples \in Nat \ {0} /\ Word \in Nat \ {0}
    /\ Costs \subseteq 0 .. Word * Word - 1 /\ Ticks \subseteq Nat /\ Ratios \subseteq Nat

VARIABLES
    tsc,            \* the cycle counter
    cyc_per_tick,
    values,         \* of the calloc'ed values, those that have been set
    samplecount,
    samples         \* history: what this fcyc has measured, from the true elapsed time
fvars == <<tsc, cyc_per_tick, values, samplecount, samples>>

-----------------------------------------------------------------------------
access_counter(t) == [hi |-> t \div Word, lo |-> t % Word]

\* (mutant) a borrow when the low words agree.
Difference_Equal(cyc, ncyc) ==
    LET lo     == (ncyc.lo - cyc.lo) % Word
        borrow == IF lo >= ncyc.lo THEN 1 ELSE 0
        hi     == (ncyc.hi - cyc.hi - borrow) % Word
    IN (hi * Word) + lo

\* get_counter: the difference of two words each, with a borrow.
Difference(cyc, ncyc) ==
    LET lo     == (ncyc.lo - cyc.lo) % Word
        borrow == IF lo > ncyc.lo THEN 1 ELSE 0
        hi     == (ncyc.hi - cyc.hi - borrow) % Word
    IN (hi * Word) + lo

\* The insertion sort moves the new value left, past all that are larger.
Insert(s, v) ==
    LET stay == {q \in 1..Len(s) : s[q] =< v}
    IN InsertAt(s, IF stay = {} THEN 1 ELSE 1 + CHOOSE q \in stay : \A r \in stay : r =< q, v)

add_sample(val) ==
    /\ values' = IF samplecount < kbest THEN Insert(values, val)
                 ELSE IF val < values[kbest] THEN Insert(Front(values), val)
                 ELSE values
    /\ samplecount' = samplecount + 1

\* epsilon is one percent.
has_converged(v, n) == n >= kbest /\ 101 * v[1] >= 100 * v[kbest]

FcycInit == /\ tsc \in {0, Word - 1, (Word * Word) - 1}
            /\ cyc_per_tick = 0
            /\ values = <<>> /\ samplecount = 0 /\ samples = <<>>

init_sampler == /\ values' = <<>> /\ samplecount' = 0 /\ samples' = <<>>
                /\ UNCHANGED <<tsc, cyc_per_tick>>

\* start_comp_counter calibrates until that has found something.
Calibrated == IF cyc_per_tick = 0 THEN cyc_per_tick' \in Ratios ELSE UNCHANGED cyc_per_tick
\* get_comp_counter takes off the time of the interrupts.
Corrected(cycles, ticks) == cycles - (ticks * cyc_per_tick')

\* One turn of fcyc's loop around a run of the test function that takes cost cycles.
Sample(cost, ticks) ==
    /\ Calibrated
    /\ tsc' = (tsc + cost) % (Word * Word)
    /\ add_sample(Corrected(Difference(access_counter(tsc), access_counter(tsc')), ticks))
    /\ samples' = Append(samples, Corrected(cost, ticks))

\* The loop ends; its result is values[1].
Sampled == samplecount > 0 /\ (has_converged(values, samplecount) \/ samplecount >= maxsamples)
=============================================================================
