--------------------------- MODULE KeiBotProperties ---------------------------
(* What the chat-bot file system keeps to.                                     *)
EXTENDS KeiBot

TypeOK ==
    /\ \A e \in Live : entry[e] \in Files
    /\ \A h \in Handles : fh[h] # None => fh[h].entry \in Entries
    /\ \A w \in Workers : job[w] # None => job[w].op \in {"create", "find", "write"}
    /\ stale \subseteq Paths \X BOOLEAN /\ strings \subseteq Bots /\ paired \subseteq Paths /\ down \in BOOLEAN

\* A path names one file: find_entry returns the first of the list, so that a second entry
\* of the same path, made by a create, an open or a rename, would never be seen again.
OneEntryPerPath == \A e, x \in Live : entry[e].path = entry[x].path => e = x

\* write_file reallocates only when the file grows and takes over any smaller size (keibot.c:369):
\* over all sequences of writes the block holds the size, so that the copy in and the copy out
\* (keibot_read) stay within it. A write leaves its block by one byte at most, the terminator of
\* keibot.c:375; that it does so, whenever it ends where the block ends, is what the code does.
BuffersHold ==
    /\ TypeOK
    /\ \A e \in Live : entry[e].size =< Len(entry[e].content) /\ entry[e].over =< 1

\* An open file is the one that its path names, so that a file removed, replaced, hidden or moved
\* while it is open is not freed under its users, and what is written to it is what others read;
\* unless a directory above it was moved or replaced, which leaves the entries below it where
\* they were: nothing is said of the files that are open there (astray), and FreedEntry shows
\* that the entry of one may be freed.
OpenLive == \A h \in Handles :
    fh[h] # None /\ ~fh[h].astray => fh[h].entry \in Live /\ entry[fh[h].entry].path = fh[h].path
\* The mirror that a handler has looked up is in the list when it is written.
MirrorLive == \A w \in Workers : job[w] # None /\ job[w].op = "write" => job[w].entry \in Live
HandlesLive == OpenLive /\ MirrorLive

\* What was created in both bot directories by one call and not removed or moved since, nor
\* written through a handle that a directory left behind, reads the same in both, whichever side
\* was written and however: the task of the lab ("echo into one, find it in the other"); until a
\* bot directory itself is removed or moved. Bytes that nobody wrote (Junk) may differ.
Busy(p) == \E w \in Workers : job[w] # None /\ job[w].path \in Pair(p)
Said(p) == keibot_read(find_entry(p), MaxSize, 0)
MirrorsAgree == strings = Bots => \A p \in paired : ~Busy(p) => Said(p) = Said(Twin(p))
=============================================================================
