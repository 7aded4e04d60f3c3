------------------------------- MODULE MCDriver -------------------------------
(* Small instances of the malloc driver. *)
EXTENDS DriverProperties

a(x, s) == [type |-> "a", index |-> x, size |-> s]
r(x, s) == [type |-> "r", index |-> x, size |-> s]
f(x)    == [type |-> "f", index |-> x, size |-> 0]
File(ids, ops) == [ids |-> ids, ops |-> ops, num_ops |-> Len(ops), weight |-> 1, ignore_ranges |-> 0]

Two     == File(2, <<a(0, 1), a(1, 4), f(0), f(1)>>)
Moves   == File(2, <<a(0, 2), a(1, 1), r(0, 1), f(-1), f(1), r(0, 0)>>)
Grows   == File(1, <<r(0, 1), r(0, 3), f(0)>>)
Reuses  == File(1, <<a(0, 1), f(0), a(0, 2), f(0)>>)
Unchecked == [Two EXCEPT !.ignore_ranges = 1]
Kept    == File(2, <<a(0, 2), a(1, 2)>>)
\* a header or a line that read_trace or add_range does not accept
Short   == [Kept EXCEPT !.num_ops = 3]
Empty   == File(1, <<a(0, 0)>>)

MCSuites == {<<Two>>, <<Moves>>, <<Unchecked>>, <<Grows, Reuses>>, <<Short>>, <<Empty>>}
Option(debug, onetime, libc, stdin, timeout) ==
    [debug |-> debug, onetime |-> onetime, libc |-> libc, stdin |-> stdin, timeout |-> timeout]
MCOptions == {Option(1, FALSE, FALSE, FALSE, TRUE), Option(2, FALSE, FALSE, FALSE, FALSE),
              Option(0, FALSE, TRUE, FALSE, TRUE), Option(1, TRUE, FALSE, FALSE, FALSE),
              Option(1, FALSE, FALSE, TRUE, TRUE)}
=============================================================================
