-------------------------------- MODULE Driver --------------------------------
(* The malloc driver (mdriver.c) as the judge of a malloc package that may do  *)
(* anything: each trace is read, checked for correctness, replayed for its use *)
(* of space and timed (Fcyc), under a timeout that may strike at any point.    *)
(*                                                                             *)
(* A step is one request of a trace with all that the driver does around it,   *)
(* or one whole replay where nothing is looked at in between. File names,      *)
(* verbosity, weights and the post to the grading server are left out.         *)
EXTENDS Fcyc

CONSTANTS
    Suites,         \* sets of trace files: sequences of [ids, ops, weight, ignore_ranges, num_ops]
    Options,        \* command lines: [debug, onetime, libc, stdin, timeout]
    Addresses,      \* that the package may return
    HeapSize,       \* the heap is 0 .. HeapSize - 1
    Align,          \* ALIGNMENT
    NULL

Line  == [type : {"a", "r", "f"}, index : Int, size : Nat]
Trace == [ids : Nat, ops : Seq(Line), num_ops : Nat, weight : Nat, ignore_ranges : Nat]

ASSUME DriverAssumption ==
    /\ HeapSize \in Nat /\ Align \in Nat \ {0} /\ Addresses \subseteq Int /\ NULL \notin Int
    /\ \A s \in Suites : s \in Seq(Trace) /\ s # <<>>
    /\ Options \subseteq [debug : 0..2, onetime : BOOLEAN, libc : BOOLEAN, stdin : BOOLEAN,
                          timeout : BOOLEAN]

VARIABLES
    opt, files,     \* the command line and the trace files, fixed
    pc,             \* what the driver does next
    mode,           \* whose package is run: "libc" or "mm"
    i, k,           \* trace and request, counted from 1
    blocks, block_sizes, block_rand_base,   \* of the trace, by id
    ranges,         \* sequence of [lo, hi, index], the newest first
    mem,            \* [heap -> datum]: what the payloads hold
    total_size, max_total_size,             \* locals of eval_mm_util
    stats,          \* mm_stats: [valid, util, secs] by trace
    errors, timed_out,
    armed,          \* the alarm is set and has not struck
    closed,         \* stdin has been read and closed
    score,          \* what main prints in the end
    faulty          \* history: the package has misbehaved, or was too slow
arrays == <<blocks, block_sizes, block_rand_base>>
checker == <<ranges, mem>>
meter   == <<total_size, max_total_size>>
dvars == <<opt, files, pc, mode, i, k, arrays, checker, meter, stats, errors, timed_out,
           armed, closed, score, faulty>>
vars  == <<dvars, fvars>>

-----------------------------------------------------------------------------
Heap    == 0 .. HeapSize - 1
trace   == files[i]
op      == trace.ops[k]
Ids(f)  == 0 .. f.ids - 1
Junk    == <<0, 0>>

\* read_trace ends the process for a header or an id that it does not accept. Only the ids
\* of 'a' and 'r' lines are compared.
Readable(f) ==
    /\ f.weight \in {0, 1} /\ f.ignore_ranges \in {0, 1}
    /\ f.num_ops =< Len(f.ops)
    /\ \A n \in 1..f.num_ops : f.ops[n].type # "f" => f.ops[n].index < f.ids
    /\ \E n \in 1..f.num_ops : f.ops[n].type # "f" /\ f.ops[n].index = f.ids - 1

\* Of the first n requests of a trace the last for an id, 0 when there is none; has that freed
\* the block; and how much does the trace hold under that id?
LastOp(f, n, x) == Max({0} \cup {q \in 1..n : f.ops[q].index = x})
Freed(f, n, x)  == LastOp(f, n, x) # 0 /\ f.ops[LastOp(f, n, x)].type = "f"
Holds(f, n, x)  == IF LastOp(f, n, x) = 0 \/ Freed(f, n, x) THEN 0 ELSE f.ops[LastOp(f, n, x)].size

\* (mutant) the sizes of the last replay stay.
reinit_trace_Blocks == blocks' = [x \in Ids(trace) |-> NULL] /\ UNCHANGED block_sizes

reinit_trace == /\ blocks' = [x \in Ids(trace) |-> NULL]
                /\ block_sizes' = [x \in Ids(trace) |-> 0]

-----------------------------------------------------------------------------
(* The checks *)

IS_ALIGNED(lo) == lo % Align = 0
Inside(lo, hi) == lo \in Heap /\ hi \in Heap
\* What add_range compares: does an end of the new payload lie in the old one?
Overlaps(lo, hi, r) == (r.lo =< lo /\ lo =< r.hi) \/ (r.lo =< hi /\ hi =< r.hi)
NoRanges == trace.ignore_ranges = 1 \/ opt.debug = 0

add_range_Accepts(rs, lo, size) ==
    LET hi == lo + size - 1 IN
    /\ IS_ALIGNED(lo) /\ Inside(lo, hi)
    /\ NoRanges \/ \A n \in DOMAIN rs : ~Overlaps(lo, hi, rs[n])
add_range(rs, lo, size, index) ==
    IF NoRanges THEN rs ELSE <<[lo |-> lo, hi |-> lo + size - 1, index |-> index]>> \o rs

\* (mutant) the link of the list's head is changed, wherever the record is.
remove_range_Head(rs, lo) == IF \E n \in DOMAIN rs : rs[n].lo = lo THEN Tail(rs) ELSE rs

\* The first record that starts there.
remove_range(rs, lo) ==
    LET at == {n \in DOMAIN rs : rs[n].lo = lo}
    IN IF at = {} THEN rs ELSE RemoveAt(rs, CHOOSE n \in at : \A q \in at : n =< q)

\* random_data from the base on. The random bytes are idealised: two fills agree in no byte,
\* where in the code they agree in each with a chance of 1 in 256 (randint_t is a byte).
Datum(base, j) == <<base, j>>
randomize_block(m, lo, size) ==
    IF opt.debug = 0 \/ size = 0 THEN m
    ELSE [a \in Heap |-> IF a \in lo .. lo + size - 1 THEN Datum(k, a - lo) ELSE m[a]]

\* (mutant) the last byte is not compared.
check_index_Short(m, lo, size, base) ==
    IF opt.debug # 0 /\ \E j \in 0 .. size - 2 : m[lo + j] # Datum(base, j) THEN 1 ELSE 0

\* check_index: errors found in size bytes of a payload at lo.
check_index(m, lo, size, base) ==
    IF opt.debug # 0 /\ \E j \in 0 .. size - 1 : m[lo + j] # Datum(base, j) THEN 1 ELSE 0

\* DBG_EXPENSIVE looks at every recorded block before every request.
Expensive ==
    IF opt.debug # 2 THEN 0
    ELSE Cardinality({n \in DOMAIN ranges :
            LET x == ranges[n].index
            IN check_index(mem, blocks[x], block_sizes[x], block_rand_base[x]) = 1})

\* What the package has to leave alone: the payloads that the trace has not freed.
Live == {x \in Ids(trace) : Holds(trace, k - 1, x) > 0}
Payload(x) == blocks[x] .. blocks[x] + block_sizes[x] - 1
Taken(ids) == UNION {Payload(x) : x \in ids}
Misplaced(lo, size, ids) ==
    LET new == lo .. lo + size - 1
    IN ~IS_ALIGNED(lo) \/ ~(new \subseteq Heap) \/ new \cap Taken(ids) # {}

\* A request may overwrite a byte of the heap that is not its own.
Scribbles == {{}} \cup {{a} : a \in Heap}
Scribbled(m, bytes) == [a \in Heap |-> IF a \in bytes THEN Junk ELSE m[a]]

-----------------------------------------------------------------------------
(* main up to run_tests; a trace is read again for each package *)

Init ==
    /\ opt \in Options /\ files \in Suites
    /\ pc = "read" /\ mode = (IF opt.libc THEN "libc" ELSE "mm")
    /\ i = 1 /\ k = 1
    /\ blocks = <<>> /\ block_sizes = <<>> /\ block_rand_base = <<>>
    /\ ranges = <<>> /\ mem = [a \in Heap |-> Junk]
    /\ total_size = 0 /\ max_total_size = 0
    /\ stats = [t \in DOMAIN files |-> [valid |-> FALSE, util |-> 0, secs |-> 0]]
    /\ errors = 0 /\ timed_out = FALSE /\ armed = opt.timeout /\ closed = FALSE
    /\ score = "none" /\ faulty = FALSE
    /\ FcycInit

\* (mutant) the package is tried again.
Skipped_Never == FALSE

\* run_tests tries no package after the timeout.
Skipped == mode = "mm" /\ timed_out

\* read_trace and read_trace_stdin; what a second read of the closed stdin gives is undefined.
read_trace ==
    /\ pc = "read"
    /\ pc' = IF opt.stdin /\ closed THEN "undefined"
             ELSE IF ~Readable(trace) THEN "exit"
             ELSE IF Skipped THEN "free"
             ELSE "valid"
    /\ closed' = opt.stdin
    /\ stats' = IF Skipped THEN [stats EXCEPT ![i].valid = FALSE] ELSE stats
    /\ block_rand_base' = [x \in Ids(trace) |-> 0]
    /\ blocks' = [x \in Ids(trace) |-> NULL]
    /\ block_sizes' = [x \in Ids(trace) |-> 0]
    /\ UNCHANGED <<opt, files, mode, i, k, checker, meter, errors, timed_out, armed, score,
                   faulty, fvars>>

\* eval_libc_valid, which ends the process when libc has no memory.
eval_libc_valid ==
    /\ pc = "valid" /\ mode = "libc"
    /\ pc' \in {"speed", "exit"}
    /\ reinit_trace /\ init_sampler
    /\ UNCHANGED <<opt, files, mode, i, k, block_rand_base, checker, meter, stats, errors,
                   timed_out, armed, closed, score, faulty>>

\* free_trace; the next trace, the next package or the results.
free_trace ==
    /\ pc = "free"
    /\ LET last == i = Len(files) \/ (mode = "mm" /\ opt.onetime /\ ~timed_out) IN
         /\ pc' = IF last /\ mode = "mm" THEN "report" ELSE "read"
         /\ i' = IF ~last THEN i + 1 ELSE IF mode = "libc" THEN 1 ELSE i
         /\ mode' = IF last THEN "mm" ELSE mode
    /\ k' = 1
    /\ blocks' = <<>> /\ block_sizes' = <<>> /\ block_rand_base' = <<>>
    /\ UNCHANGED <<opt, files, checker, meter, stats, errors, timed_out, armed, closed, score,
                   faulty, fvars>>

-----------------------------------------------------------------------------
(* eval_mm_valid *)

\* mem_reset_brk, clear_ranges, reinit_trace, mm_init. What a reset heap holds is not looked at.
StartValid ==
    /\ pc = "valid" /\ mode = "mm"
    /\ ranges' = <<>> /\ mem' = [a \in Heap |-> Junk]
    /\ reinit_trace
    /\ \/ pc' = "check" /\ UNCHANGED <<errors, faulty>>
       \/ pc' = "free" /\ errors' = errors + 1 /\ faulty' = TRUE
    /\ UNCHANGED <<opt, files, mode, i, k, block_rand_base, meter, stats, timed_out, armed,
                   closed, score, fvars>>

\* What every request of the loop leaves alone.
ValidFrame == UNCHANGED <<opt, files, mode, i, meter, stats, timed_out, armed, closed, score, fvars>>
Request(type) == pc = "check" /\ k =< trace.num_ops /\ op.type = type

\* malloc_error and return 0, after found other errors, with the records rs; valid is 0 from
\* calloc.
Refuse(found, rs) == /\ errors' = errors + found + 1 /\ pc' = "free"
                     /\ ranges' = rs
                     /\ UNCHANGED <<k, arrays, mem>>

\* The request is over; lo is the block now, with new data in it.
Accept(found, lo, size, rs, m) ==
    /\ errors' = errors + found
    /\ blocks' = [blocks EXCEPT ![op.index] = lo]
    /\ block_sizes' = [block_sizes EXCEPT ![op.index] = size]
    /\ block_rand_base' = [block_rand_base EXCEPT ![op.index] = k]
    /\ ranges' = rs
    /\ mem' = randomize_block(m, lo, size)
    /\ k' = k + 1
    /\ UNCHANGED pc

ALLOC ==
    /\ Request("a")
    /\ \E p \in Addresses \cup {NULL}, bytes \in Scribbles :
         /\ faulty' = (faulty \/ p = NULL \/ Misplaced(p, op.size, Live)
                              \/ bytes \cap Taken(Live) # {})
         /\ IF p = NULL THEN Refuse(Expensive, ranges)
            ELSE IF op.size = 0     \* assert(size > 0)
              THEN pc' = "exit" /\ UNCHANGED <<k, errors, arrays, checker>>
            ELSE IF ~add_range_Accepts(ranges, p, op.size) THEN Refuse(Expensive, ranges)
            ELSE Accept(Expensive, p, op.size, add_range(ranges, p, op.size, op.index),
                        Scribbled(mem, bytes))
    /\ ValidFrame

REALLOC ==
    /\ Request("r")
    /\ LET id   == op.index
           oldp == blocks[id]
           base == block_rand_base[id]
           kept == IF op.size < block_sizes[id] THEN op.size ELSE block_sizes[id]
           found == Expensive + check_index(mem, oldp, block_sizes[id], base)
           rest == remove_range(ranges, oldp)
       IN
       \E newp \in Addresses \cup {NULL}, bytes \in Scribbles :
         LET \* The package copies the data, but for what it spoils.
             m == Scribbled([a \in Heap |-> IF newp # NULL /\ a \in newp .. newp + kept - 1
                                              THEN mem[oldp + a - newp] ELSE mem[a]], bytes)
             new == newp .. newp + kept - 1
         IN
         /\ faulty' = (\/ faulty
                       \/ (newp = NULL) # (op.size = 0)
                       \/ newp # NULL /\ Misplaced(newp, op.size, Live \ {id})
                       \/ bytes \cap Taken(Live \ {id}) # {}
                       \/ newp # NULL /\ bytes \cap new # {})
         /\ IF (newp = NULL) # (op.size = 0) THEN Refuse(found, ranges)
            ELSE IF newp = NULL
              THEN Accept(found, NULL, 0, rest, Scribbled(mem, bytes))
            ELSE IF ~add_range_Accepts(rest, newp, op.size) THEN Refuse(found, rest)   \* the old record is gone
            ELSE Accept(found + check_index(m, newp, kept, base), newp, op.size,
                        add_range(rest, newp, op.size, id), m)
    /\ ValidFrame

FREE ==
    /\ Request("f")
    /\ LET id == op.index IN
       \E bytes \in Scribbles :
         /\ faulty' = (faulty \/ bytes \cap Taken(Live \ {id}) # {})
         /\ mem' = Scribbled(mem, bytes)
         /\ IF id = -1      \* free(NULL)
              THEN errors' = errors + Expensive /\ UNCHANGED ranges
              ELSE /\ errors' = errors + Expensive
                        + check_index(mem, blocks[id], block_sizes[id], block_rand_base[id])
                   /\ ranges' = remove_range(ranges, blocks[id])
    /\ k' = k + 1
    /\ UNCHANGED <<pc, arrays>> /\ ValidFrame

\* eval_mm_valid returns 1, whatever check_index has found.
Judged ==
    /\ pc = "check" /\ k > trace.num_ops
    /\ stats' = [stats EXCEPT ![i].valid = TRUE]
    /\ pc' = IF opt.onetime THEN "free" ELSE "util"
    /\ k' = 1
    /\ reinit_trace                         \* of eval_mm_util
    /\ total_size' = 0 /\ max_total_size' = 0
    /\ UNCHANGED <<opt, files, mode, i, block_rand_base, checker, errors, timed_out, armed,
                   closed, score, faulty, fvars>>

-----------------------------------------------------------------------------
(* eval_mm_util and eval_mm_speed: where the package puts blocks is not looked at, but a *)
(* request that it refuses ends the process.                                             *)

MeasureSpace ==
    /\ pc = "util" /\ k =< trace.num_ops
    /\ LET id   == op.index
           size == IF op.type = "f" THEN 0 ELSE op.size
           \* FREE leaves the size where it is
           before == IF op.type = "a" \/ id < 0 THEN 0 ELSE block_sizes[id]
       IN
       /\ total_size' = total_size + size - before
       /\ max_total_size' = IF total_size' > max_total_size THEN total_size' ELSE max_total_size
       /\ block_sizes' = IF op.type = "f" THEN block_sizes ELSE [block_sizes EXCEPT ![id] = size]
    /\ k' = k + 1
    /\ UNCHANGED <<opt, files, pc, mode, i, blocks, block_rand_base, checker, stats, errors,
                   timed_out, armed, closed, score, faulty, fvars>>

Measured ==
    /\ pc = "util" /\ k > trace.num_ops
    /\ stats' = [stats EXCEPT ![i].util = max_total_size]
    /\ pc' = "speed"
    /\ init_sampler
    /\ UNCHANGED <<opt, files, mode, i, k, arrays, checker, meter, errors, timed_out, armed,
                   closed, score, faulty>>

\* One run of the test function inside fcyc.
TimeRun ==
    /\ pc = "speed" /\ ~Sampled
    /\ \E cost \in Costs, ticks \in Ticks : Sample(cost, ticks)
    /\ reinit_trace
    /\ UNCHANGED <<opt, files, pc, mode, i, k, block_rand_base, checker, meter, stats, errors,
                   timed_out, armed, closed, score, faulty>>

Timed ==
    /\ pc = "speed" /\ Sampled
    /\ stats' = IF mode = "mm" THEN [stats EXCEPT ![i].secs = values[1]] ELSE stats
    /\ pc' = "free"
    /\ init_sampler                         \* free(values)
    /\ UNCHANGED <<opt, files, mode, i, k, arrays, checker, meter, errors, timed_out, armed,
                   closed, score, faulty>>

\* app_error or unix_error of a replay.
ReplayFails ==
    /\ pc \in {"util", "speed"} /\ pc' = "exit"
    /\ UNCHANGED <<opt, files, mode, i, k, arrays, checker, meter, stats, errors, timed_out,
                   armed, closed, score, faulty, fvars>>

-----------------------------------------------------------------------------
\* The package never returns.
Hang ==
    /\ mode = "mm" /\ pc \in {"valid", "check", "util", "speed"}
    /\ pc' = "hang" /\ faulty' = TRUE
    /\ UNCHANGED <<opt, files, mode, i, k, arrays, checker, meter, stats, errors, timed_out,
                   armed, closed, score, fvars>>

\* timeout_handler: back to run_tests, which reads the trace again. Before run_tests has
\* been called, and after it has returned, there is nowhere to jump to.
timeout_handler ==
    /\ armed /\ pc \notin {"exit", "undefined"}
    /\ armed' = FALSE
    /\ errors' = 1
    /\ IF mode = "libc" \/ pc = "report"
         THEN pc' = "undefined" /\ UNCHANGED <<timed_out, k>>
         ELSE pc' = "read" /\ timed_out' = TRUE /\ k' = 1
    /\ faulty' = TRUE
    /\ UNCHANGED <<opt, files, mode, i, arrays, checker, meter, stats, closed, score, fvars>>

\* main after run_tests.
Report ==
    /\ pc = "report"
    /\ score' = IF errors = 0 THEN "index" ELSE "errors"
    /\ pc' = "exit"
    /\ UNCHANGED <<opt, files, mode, i, k, arrays, checker, meter, stats, errors, timed_out,
                   armed, closed, faulty, fvars>>

Step == \/ read_trace \/ eval_libc_valid \/ free_trace
        \/ StartValid \/ ALLOC \/ REALLOC \/ FREE \/ Judged
        \/ MeasureSpace \/ Measured \/ TimeRun \/ Timed \/ ReplayFails
        \/ Report
Next == Step \/ Hang \/ timeout_handler

\* The process runs until it is stuck in the package; the alarm comes.
Spec == Init /\ [][Next]_vars /\ WF_vars(Step) /\ WF_vars(timeout_handler)
=============================================================================
