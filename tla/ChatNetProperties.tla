-------------------------- MODULE ChatNetProperties ---------------------------
(* What a network of chat processes is for its users.                          *)
EXTENDS ChatNet, FiniteSets

ASSUME ProcsAssumption == IsFiniteSet(Procs)

\* The caches remember every message and no path is too long for a ttl: a hop takes up to 3.
Roomy == net.cache >= MaxSaid /\ net.recent >= MaxSaid /\ net.ttl > 3 * Cardinality(Procs)

\* In circles, through joins at any time, over paths that overtake each other, a message is
\* displayed once by a process and never before one that its author had seen or typed earlier.
Room == INSTANCE ChatRoom WITH Users <- Procs, read <- shown, remembers <- Roomy
RoomSpec == Room!Spec

\* The traffic of a message ends, by the caches or, when they have forgotten it, by its ttl;
\* then everyone has been shown everything.
Quiet == \A p \in Procs : <<posts[p], up[p], down[p]>> = <<<<>>, <<>>, <<>>>>
Told(p) == HasClient(p) => Known(shown[p]) = DOMAIN said
Settles == []<>(Quiet /\ (Roomy => \A p \in Procs : Told(p)))
=============================================================================
