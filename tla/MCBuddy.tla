------------------------------- MODULE MCBuddy -------------------------------
(* Small pools for TLC: pages of two bytes, so that a pointer can be unaligned. *)
EXTENDS BuddyProperties

MCPow2 == [k \in 0..MaxRank |-> 2 ^ k]

\* Every call.
MCRankArgs == 0 .. MaxRank + 1
MCPtrArgs == -2 .. 2 * Pow2[MaxRank - 1] + 1

=============================================================================
