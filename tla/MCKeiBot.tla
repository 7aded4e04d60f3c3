------------------------------ MODULE MCKeiBot ------------------------------
(* Small instances of the chat-bot file system. *)
EXTENDS KeiBotProperties, TLC

CONSTANTS x, y, t1, t2

\* One name in each bot directory, and a directory outside: a bot directory may be moved
\* there or be replaced by it, and its files stay behind.
MCPaths == {<<bot1>>, <<bot2>>, <<bot1, x>>, <<bot2, x>>, <<bot1, hidden>>, <<bot2, hidden>>,
            <<y>>, <<y, x>>}
MCTexts == {<<t1>>}
MCEmoji == <<<<t2, t2>>>>

Symmetry == Permutations(Entries)
=============================================================================
