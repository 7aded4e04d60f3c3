------------------------------- MODULE MCChat -------------------------------
(* Small instances of a chat process. *)
EXTENDS ChatProperties, TLC

\* Sessions and threads have no order; messages are told apart only by identity.
Symmetry == Permutations(Sessions) \cup Permutations(Threads) \cup Permutations(PeerMsgs \ Black)
=============================================================================
