------------------------------- MODULE MCChatNet -------------------------------
(* Small networks of chat processes. *)
EXTENDS ChatNetProperties

CONSTANTS p1, p2, p3

Target(a, b, c) == [p \in Procs |-> IF p = p1 THEN a ELSE IF p = p2 THEN b ELSE c]
Net(target, late, ttl, room) ==
    [target |-> target, late |-> late, ttl |-> ttl, cache |-> room, recent |-> room]

Circle == Target(p2, p3, p1)
Star   == Target(p3, p3, None)
Chain  == Target(p2, p3, None)
Pair   == Target(p2, p1, None)
Tail3  == Target(p2, p1, p1)    \* a pair, and one at its tail

\* With the DEFAULT_TTL and room for all; then with room for one message, where only ttl ends
\* the traffic.
MCNets == {Net(Circle, {p1}, 10, 2), Net(Tail3, {p3}, 10, 2), Net(Star, {p1}, 10, 2),
           Net(Chain, {p1}, 10, 2), Net(Chain, {p2}, 10, 2),
           Net(Star, {p1}, 4, 1), Net(Pair, {p1}, 3, 1)}
=============================================================================
