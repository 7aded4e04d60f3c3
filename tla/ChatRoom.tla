------------------------------- MODULE ChatRoom -------------------------------
(* What the chat is for its users: one room.  Who reads a message was told it  *)
(* once, and after everything that its author had read or said before.         *)
EXTENDS Naturals, Sequences

CONSTANT Users
VARIABLES
  said,       \* sequence of [by, after]: the messages, numbered from 1
  read,       \* [Users -> sequence of the numbers read]
  remembers   \* the room remembers all that was said

Known(s) == {s[k] : k \in DOMAIN s}
By(u) == {n \in DOMAIN said : said[n].by = u}

Init == said = <<>> /\ read = [u \in Users |-> <<>>] /\ remembers \in BOOLEAN

Say(u) ==
  /\ said' = Append(said, [by |-> u, after |-> Known(read[u]) \cup By(u)])
  /\ UNCHANGED <<read, remembers>>

\* A room that forgets may tell a message again, or out of order, but invents none.
Read(u, n) ==
  /\ n \in DOMAIN said
  /\ remembers => n \notin Known(read[u]) /\ said[n].after \subseteq Known(read[u])
  /\ read' = [read EXCEPT ![u] = Append(@, n)]
  /\ UNCHANGED <<said, remembers>>

Next == \E u \in Users : Say(u) \/ \E n \in DOMAIN said : Read(u, n)
Spec == Init /\ [][Next]_<<said, read, remembers>>
=============================================================================
